---- MODULE Spec2Model ----
(***************************************************************************)
(* gpk: Git based package manager.  Model of the verified cache            *)
(* (Package.fetchVerified and its callers) and of the flat installation    *)
(* (Package.install / installDependencies / installModule /                *)
(* determinePath) of lib/package.js.                                       *)
(*                                                                         *)
(* A directory of the project tree is the sequence of dependency names on  *)
(* its path: <<>> is the root package directory, <<"c","f">> is            *)
(* <root>/node_modules/c/node_modules/f.                                   *)
(* A version is a tuple <<major, minor, patch>>, a tag is "v" + version.   *)
(* Optional values are sequences of length 0 or 1.                         *)
(***************************************************************************)
EXTENDS Integers, Sequences, FiniteSets, TLC

VARIABLES
  world,       \* the root manifest and the remote repositories (inputs)
  rootInfo,    \* per process: package.json of its root package (this.info)
  call,        \* a call of a function of the library and its result
  cache,       \* <home>/cache/<oid>: verified cache entries
  unverified,  \* <home>/cache/<oid>-unverified directories
  fs,          \* per process: install sites of its project tree
  status,      \* per process: "off", "idle", "running", "done", "error"
  stack,       \* per process: the installDependencies frames (recursion)
  pc,          \* per process: position inside installModule
  cur,         \* per process: locals of the running installModule
  runs,        \* per process: number of install() calls started
  faults,      \* number of injected subprocess failures
  hist         \* per process: observations of the current install() call

vars == <<world, rootInfo, call, cache, unverified, fs, status, stack, pc,
          cur, runs, faults, hist>>

(***************************************************************************)
(* Bounds.                                                                 *)
(***************************************************************************)
MaxRuns == 2
MaxFaults == 1

Procs == {"p1", "p2"}
Names == {"c", "d", "e", "f"}
RootName == "a"

(***************************************************************************)
(* Version Range Evaluator (vendor/semver, used through semver.satisfies). *)
(* Only the operators ^ and ~ on versions with major >= 1 are used.        *)
(***************************************************************************)
V100 == <<1, 0, 0>>
V110 == <<1, 1, 0>>
V200 == <<2, 0, 0>>
Versions == {V100, V110, V200}

VerLess(a, b) ==
  \/ a[1] < b[1]
  \/ a[1] = b[1] /\ a[2] < b[2]
  \/ a[1] = b[1] /\ a[2] = b[2] /\ a[3] < b[3]

VerGeq(a, b) == ~VerLess(a, b)

\* A string of a manifest or of a command line is a sequence of tokens; a
\* value that may be null is a sequence of length 0 (null) or 1.
\* The range strings and the ranges they denote.
RangeTable ==
  [s \in {"^1.0.0", "^1.1.0", "^2.0.0", "~1.0.0", "~1.9.0", "^3.0.0"} |->
     CASE s = "^1.0.0" -> [op |-> "^", v |-> <<1, 0, 0>>]
       [] s = "^1.1.0" -> [op |-> "^", v |-> <<1, 1, 0>>]
       [] s = "^2.0.0" -> [op |-> "^", v |-> <<2, 0, 0>>]
       [] s = "~1.0.0" -> [op |-> "~", v |-> <<1, 0, 0>>]
       [] s = "~1.9.0" -> [op |-> "~", v |-> <<1, 9, 0>>]
       [] OTHER -> [op |-> "^", v |-> <<3, 0, 0>>]]

\* new Range(range): <<range>>, or <<>> when the constructor throws (null,
\* or a string that is not a range).
ParseRange(range) ==
  IF range # <<>> /\ Len(range[1]) = 1 /\ range[1][1] \in DOMAIN RangeTable
    THEN <<RangeTable[range[1][1]]>>
    ELSE <<>>

\* semver.satisfies(version, range): false when the range is not valid.
satisfies(v, range) ==
  LET r == ParseRange(range)
  IN IF r = <<>> THEN FALSE
     ELSE IF r[1].op = "^"
       THEN v[1] = r[1].v[1] /\ VerGeq(v, r[1].v)
       ELSE v[1] = r[1].v[1] /\ v[2] = r[1].v[2] /\ VerGeq(v, r[1].v)

\* The range strings "^<v>" and "~<v>".
Caret(v) ==
  <<CHOOSE s \in DOMAIN RangeTable : RangeTable[s] = [op |-> "^", v |-> v]>>
Tilde(v) ==
  <<CHOOSE s \in DOMAIN RangeTable : RangeTable[s] = [op |-> "~", v |-> v]>>

(***************************************************************************)
(* Tag names as character strings (sequences of character codes), as       *)
(* matchTag compares them.                                                 *)
(***************************************************************************)
ChV == 118
ChDot == 46
Ch0 == 48

RECURSIVE Dec(_)
Dec(n) == IF n < 10 THEN <<Ch0 + n>> ELSE Dec(n \div 10) \o <<Ch0 + (n % 10)>>

TagName(v) == <<ChV>> \o Dec(v[1]) \o <<ChDot>> \o Dec(v[2]) \o <<ChDot>>
              \o Dec(v[3])

RECURSIVE StrLess(_, _)
StrLess(s, t) ==
  IF t = <<>> THEN FALSE
  ELSE IF s = <<>> THEN TRUE
  ELSE IF Head(s) # Head(t) THEN Head(s) < Head(t)
  ELSE StrLess(Tail(s), Tail(t))

\* semver.parse of "<major>.<minor>.<patch>": <<version>>, or <<>> when the
\* string is not a version.
RECURSIVE ParseNum(_, _)
ParseNum(s, acc) ==
  IF s = <<>> \/ Head(s) < Ch0 \/ Head(s) > Ch0 + 9 THEN <<acc, s>>
  ELSE ParseNum(Tail(s), 10 * acc + (Head(s) - Ch0))

IsDigit(s) == s # <<>> /\ Head(s) >= Ch0 /\ Head(s) <= Ch0 + 9

ParseVer(s) ==
  IF ~IsDigit(s) THEN <<>>
  ELSE LET a == ParseNum(s, 0) IN
    IF a[2] = <<>> \/ Head(a[2]) # ChDot \/ ~IsDigit(Tail(a[2])) THEN <<>>
    ELSE LET b == ParseNum(Tail(a[2]), 0) IN
      IF b[2] = <<>> \/ Head(b[2]) # ChDot \/ ~IsDigit(Tail(b[2])) THEN <<>>
      ELSE LET c == ParseNum(Tail(b[2]), 0) IN
        IF c[2] # <<>> THEN <<>> ELSE << <<a[1], b[1], c[1]>> >>

\* tag.replace('v', ''): removes the first "v" of the tag.
RECURSIVE StripV(_)
StripV(s) ==
  IF s = <<>> THEN <<>>
  ELSE IF Head(s) = ChV THEN Tail(s)
  ELSE <<Head(s)>> \o StripV(Tail(s))

TagSatisfies(tag, needed) ==
  LET v == ParseVer(StripV(tag))
  IN v # <<>> /\ satisfies(v[1], needed)

\* matchTag: the tags starting with "v", sorted by name with the largest
\* first; the first one whose version satisfies the range.
matchTag(tags, needed) ==
  LET filtered == {t \in tags : t # <<>> /\ Head(t) = ChV}
      ok == {t \in filtered : TagSatisfies(t, needed)}
  IN IF ok = {} THEN <<>>
     ELSE <<CHOOSE t \in ok : \A u \in ok : u = t \/ StrLess(u, t)>>

(***************************************************************************)
(* Remote repositories.  Every repository of Names has the annotated tags  *)
(* v1.0.0, v1.1.0 and v2.0.0 and a branch master at the commit of v2.0.0;  *)
(* the repository LightRepo has the lightweight tag v2.1.0 too.  Its       *)
(* package.json at a tag declares the version of the tag and the           *)
(* dependencies world.repos[repo].deps.                                    *)
(***************************************************************************)
RepoTags == {TagName(v) : v \in Versions}
Master == <<"master">>

V210 == <<2, 1, 0>>
LightRepo == "e"

\* A commit SHA of 40 hexadecimal characters as the fragment of a source.
Sha == <<"3c0cfdd8445ec81386daa187feb2d32b9f4d89a1">>

\* The repository behind a git url: <dir>/<repo>/.git or <host>/<repo>.git
RepoOf(git) ==
  IF git[Len(git) - 1] = "/" THEN git[Len(git) - 2] ELSE git[Len(git) - 1]

\* Object ids: of the tag object of an annotated tag, and of the commit a
\* tag or a branch points to.
TagOid(repo, tag) == [repo |-> repo, ref |-> tag, kind |-> "tag"]
CommitOid(repo, tag) == [repo |-> repo, ref |-> tag, kind |-> "commit"]

\* The suffix "^{}" of a peeled line of git ls-remote.
Peel == <<94, 123, 125>>

\* git ls-remote --tags of one tag: "<oid>\trefs/tags/<name>", and for an
\* annotated tag the oid is the one of the tag object and a second line
\* "<commit oid>\trefs/tags/<name>^{}" follows.
lsRemoteTag(repo, name, annotated) ==
  IF annotated
    THEN <<[hash |-> TagOid(repo, name), tag |-> name],
           [hash |-> CommitOid(repo, name), tag |-> name \o Peel]>>
    ELSE <<[hash |-> CommitOid(repo, name), tag |-> name]>>

\* git ls-remote --tags <git>
lsRemoteTags(git) ==
  lsRemoteTag(RepoOf(git), TagName(V100), TRUE)
  \o lsRemoteTag(RepoOf(git), TagName(V110), TRUE)
  \o lsRemoteTag(RepoOf(git), TagName(V200), TRUE)
  \o (IF RepoOf(git) = LightRepo
        THEN lsRemoteTag(RepoOf(git), TagName(V210), FALSE) ELSE <<>>)

\* tag.includes(sub) and tag.replace(sub, '')
RECURSIVE search(_, _, _)
search(s, sub, from) ==
  IF from + Len(sub) - 1 > Len(s) THEN 0
  ELSE IF SubSeq(s, from, from + Len(sub) - 1) = sub THEN from
  ELSE search(s, sub, from + 1)

includes(s, sub) == search(s, sub, 1) # 0

remove(s, sub) ==
  LET i == search(s, sub, 1)
  IN IF i = 0 THEN s
     ELSE SubSeq(s, 1, i - 1) \o SubSeq(s, i + Len(sub), Len(s))

\* The body of the loop of listTags for one line: the hash of a line with
\* "^{}" is stored as annotated, the hash of a line without as commit.
parseTag(item, tags) ==
  LET hash == item.hash
      annotated == includes(item.tag, Peel)
      tag == IF annotated THEN remove(item.tag, Peel) ELSE item.tag
      old == IF tag \in DOMAIN tags THEN tags[tag]
             ELSE [name |-> tag, annotated |-> <<>>, commit |-> <<>>]
      new == IF annotated THEN [old EXCEPT !.annotated = <<hash>>]
             ELSE [old EXCEPT !.commit = <<hash>>]
  IN (tag :> new) @@ tags

\* The loop of listTags over the lines (the remaining lines and the object
\* built so far are bound as values before the next round).
RECURSIVE parseTags(_, _)
parseTags(items, tags) ==
  IF items = <<>> THEN tags
  ELSE CHOOSE out \in {parseTags(rest, next) :
                         rest \in {Tail(items)},
                         next \in {parseTag(Head(items), tags)}} : TRUE

\* listTags: tag name -> {name, annotated, commit}
listTags(git) == parseTags(lsRemoteTags(git), [x \in {} |-> TRUE])

\* listBranches: branch name -> commit
listBranches(git) ==
  [branches |-> [b \in {Master} |-> CommitOid(RepoOf(git), TagName(V200))],
   head |-> Master]

\* semver.parse(tag): the version and whether it has a prerelease part
\* ("-" and a name behind the version), or null.
ChDash == 45

semverParse(tag) ==
  LET s == IF tag # <<>> /\ Head(tag) = ChV THEN Tail(tag) ELSE tag
      dash == search(s, <<ChDash>>, 1)
      core == IF dash = 0 THEN s ELSE SubSeq(s, 1, dash - 1)
      v == ParseVer(core)
  IN IF v = <<>> \/ (dash # 0 /\ dash = Len(s)) THEN <<>>
     ELSE <<[version |-> v[1], prerelease |-> dash # 0]>>

\* The order of sortTags: semver precedence, a prerelease below its
\* release, a tag that is not a version below every version.
tagLess(a, b) ==
  LET pa == semverParse(a)
      pb == semverParse(b)
  IN IF pa = <<>> THEN pb # <<>> \/ StrLess(a, b)
     ELSE IF pb = <<>> THEN FALSE
     ELSE \/ VerLess(pa[1].version, pb[1].version)
          \/ /\ pa[1].version = pb[1].version
             /\ \/ pa[1].prerelease /\ ~pb[1].prerelease
                \/ pa[1].prerelease = pb[1].prerelease /\ StrLess(a, b)

\* sortTags(tags, desc)
RECURSIVE sortTags(_, _)
sortTags(tags, desc) ==
  IF tags = {} THEN <<>>
  ELSE CHOOSE out \in
    {<<first>> \o sortTags(rest, desc) :
       <<first, rest>> \in
         {<<t, tags \ {t}>> : t \in {x \in tags : \A u \in tags \ {x} :
            IF desc THEN tagLess(u, x) ELSE tagLess(x, u)}}} : TRUE

\* discoverRepo without version: the loop over the sorted keys keeps the
\* last tag that is not a prerelease; parsed.prerelease of a tag that is
\* not a version throws.
RECURSIVE latestTag(_, _)
latestTag(keys, latest) ==
  IF keys = <<>> THEN [err |-> "", tag |-> latest]
  ELSE LET parsed == semverParse(Head(keys))
       IN IF parsed = <<>> THEN [err |-> "TypeError", tag |-> <<>>]
          ELSE IF parsed[1].prerelease THEN latestTag(Tail(keys), latest)
          ELSE latestTag(Tail(keys), <<Head(keys)>>)

\* discoverRepo without branch: the tag it selects among the keys of
\* listTags, null when there is none.
discoverTag(tags, version) ==
  CHOOSE out \in
    {IF version # <<>>
       THEN CHOOSE r \in
              {[err |-> IF match = <<>> THEN "Unknown tag." ELSE "",
                tag |-> match] :
                 match \in {matchTag({keys[i] : i \in DOMAIN keys},
                                      version)}} : TRUE
       ELSE latestTag(keys, <<>>) :
     keys \in {sortTags(tags, TRUE)}} : TRUE

\* The remotes of the manifests.
Remotes == (<<"local">> :> <<"git+file://", "/", "data">>)

\* The package.json of a repository at a commit.
RepoManifest(w, commit) ==
  [name |-> commit.repo,
   version |-> ParseVer(StripV(commit.ref))[1],
   remotes |-> <<Remotes>>,
   deps |-> w.repos[commit.repo].deps]

(***************************************************************************)
(* Source strings.  A string is a sequence of tokens: the separators ":"   *)
(* and "#", the prefixes "git+", "ssh://", "https://", "file://" and       *)
(* "git://", "semver" and pieces of text without separator.                *)
(***************************************************************************)
RECURSIVE indexOf(_, _, _)
indexOf(s, t, from) ==
  IF from > Len(s) THEN 0
  ELSE IF s[from] = t THEN from
  ELSE indexOf(s, t, from + 1)

\* str.split('#'): the first two pieces; the second is null without "#".
splitHash(s) ==
  LET i == indexOf(s, "#", 1)
      rest == SubSeq(s, i + 1, Len(s))
      j == indexOf(rest, "#", 1)
  IN IF i = 0 THEN <<s, <<>>>>
     ELSE <<SubSeq(s, 1, i - 1),
            <<IF j = 0 THEN rest ELSE SubSeq(rest, 1, j - 1)>> >>

\* Mutant: "semver:" is not removed.
replaceSemver_Kept(s) == s

\* branch.replace('semver:', ''): removes the first "semver:".
RECURSIVE replaceSemver(_)
replaceSemver(s) ==
  IF Len(s) < 2 THEN s
  ELSE IF s[1] = "semver" /\ s[2] = ":" THEN SubSeq(s, 3, Len(s))
  ELSE <<s[1]>> \o replaceSemver(Tail(s))

\* Mutant: the branch is not reset when the fragment is a version.
findVersion_KeepsBranch(extra) ==
  IF extra = <<>> \/ extra[1] = <<>>
    THEN [branch |-> <<>>, version |-> <<>>]
  ELSE IF replaceSemver(extra[1]) # extra[1]
    THEN [branch |-> extra, version |-> <<replaceSemver(extra[1])>>]
  ELSE [branch |-> extra, version |-> <<>>]

\* findVersion(branch): the fragment is a version when it holds "semver:",
\* else a branch; an undefined or empty fragment gives neither.
findVersion(extra) ==
  IF extra = <<>> \/ extra[1] = <<>>
    THEN [branch |-> <<>>, version |-> <<>>]
  ELSE IF replaceSemver(extra[1]) # extra[1]
    THEN [branch |-> <<>>, version |-> <<replaceSemver(extra[1])>>]
  ELSE [branch |-> extra, version |-> <<>>]

\* path.isAbsolute(dir)
isAbsolute(dir) == dir # <<>> /\ dir[1] = "/"

\* resolveRemote of a package with this.info.remotes = remotes (null or a
\* table from alias to template) and this.env.basedir = basedir.
\* err is "" or the error thrown.
resolveRemote(remotes, basedir, name, src, global) ==
  LET table == IF global THEN <<>> ELSE remotes
      matched == \/ Len(src) >= 2 /\ src[1] = "git+"
                    /\ src[2] \in {"ssh://", "https://", "file://"}
                 \/ Len(src) >= 1 /\ src[1] = "git://"
      url == IF src[1] = "git://" THEN src ELSE Tail(src)
      colon == indexOf(src, ":", 1)
      remote == SubSeq(src, 1, colon - 1)
      id == SubSeq(src, colon + 1, Len(src))
      repo0 == splitHash(id)[1]
      repo == IF repo0 = <<>> THEN <<name>> ELSE repo0
      fv == findVersion(splitHash(id)[2])
      host == table[1][remote]
      dir0 == Tail(host)
      dir == IF isAbsolute(dir0) THEN dir0 ELSE basedir[1] \o <<"/">> \o dir0
      Fail(e) == [err |-> e, git |-> <<>>, version |-> <<>>, branch |-> <<>>]
  IN IF matched
       THEN [err |-> "", git |-> <<splitHash(url)[1]>>,
             version |-> findVersion(splitHash(url)[2]).version,
             branch |-> findVersion(splitHash(url)[2]).branch]
     ELSE IF colon = 0 \/ id = <<>>
       THEN [err |-> "", git |-> <<>>, version |-> <<src>>, branch |-> <<>>]
     ELSE IF table = <<>> THEN Fail("Unknown remotes.")
     ELSE IF remote \notin DOMAIN table[1] THEN Fail("Unknown remote.")
     ELSE IF host[1] = "git+file://"
       THEN IF ~isAbsolute(dir0) /\ basedir = <<>> THEN Fail("Unknown base.")
            ELSE [err |-> "",
                  git |-> <<<<"file://">> \o dir \o <<"/">> \o repo
                            \o <<"/", ".git">> >>,
                  version |-> fv.version, branch |-> fv.branch]
     ELSE [err |-> "", git |-> <<host \o <<"/">> \o repo \o <<".git">> >>,
           version |-> fv.version, branch |-> fv.branch]

\* The sources of the dependencies of the manifests:
\* local:#semver:<range> and local:#<branch>.
SemverSrc(r) == <<"local", ":", "#", "semver", ":">> \o r
BranchSrc(b) == <<"local", ":", "#">> \o b
Dep(n, src) == [name |-> n, src |-> src]

(***************************************************************************)
(* The project tree: a function from the directories of the install sites  *)
(* to the package.json found there.                                        *)
(***************************************************************************)
Without(f, x) == [y \in DOMAIN f \ {x} |-> f[y]]
With(f, x, v) == (x :> v) @@ f

existingVersion(tree, dst) ==
  IF dst \in DOMAIN tree
    THEN [pkg |-> TRUE, version |-> tree[dst].version,
          commit |-> tree[dst].commit]
    ELSE [pkg |-> FALSE, version |-> V100, commit |-> TagOid("", <<>>)]

checkExisting(tree, modulePath, commit, version) ==
  LET existing == existingVersion(tree, modulePath)
  IN IF existing.pkg
       THEN IF commit # <<>>
              THEN <<TRUE, existing.commit = commit[1]>>
              ELSE <<TRUE, satisfies(existing.version, version)>>
       ELSE <<FALSE, FALSE>>

checkBundle(tree, dir, name, commit, version) ==
  LET e == checkExisting(tree, dir \o <<name>>, commit, version)
  IN e[1] /\ e[2]

\* A package object is [dir, parent]: parent is the chain of the parent
\* links, nearest first.  getParents('dir', true) walks the links and puts
\* every ancestor in front.
\* Mutant: the ancestors are pushed behind instead of put in front.
RECURSIVE getParentsWalk_Push(_, _)
getParentsWalk_Push(links, parents) ==
  IF links = <<>> THEN parents
  ELSE getParentsWalk_Push(Tail(links), parents \o <<Head(links)>>)

RECURSIVE getParentsWalk(_, _)
getParentsWalk(links, parents) ==
  IF links = <<>> THEN parents
  ELSE getParentsWalk(Tail(links), <<Head(links)>> \o parents)

getParents(pkg) == getParentsWalk(pkg.parent, <<pkg.dir>>)

\* Mutant: the loop does not stop at the first absent slot.
RECURSIVE searchDirs_NoBreak(_, _, _, _, _, _)
searchDirs_NoBreak(tree, dirs, name, commit, version, conflict) ==
  IF dirs = <<>>
    THEN [satisfied |-> FALSE, dstDir |-> <<>>, dst |-> <<>>,
          conflict |-> conflict]
  ELSE
    LET mpath == Head(dirs) \o <<name>>
        e == checkExisting(tree, mpath, commit, version)
        rest == searchDirs_NoBreak(tree, Tail(dirs), name, commit, version,
                                   conflict)
    IN IF e[1]
         THEN IF e[2]
                THEN [satisfied |-> TRUE, dstDir |-> <<>>, dst |-> <<>>,
                      conflict |-> conflict]
                ELSE searchDirs_NoBreak(tree, Tail(dirs), name, commit,
                                        version, <<mpath>>)
         ELSE IF rest.satisfied THEN rest
         ELSE [satisfied |-> TRUE, dstDir |-> <<Head(dirs)>>,
               dst |-> <<mpath>>, conflict |-> conflict]

RECURSIVE searchDirs(_, _, _, _, _, _)
searchDirs(tree, dirs, name, commit, version, conflict) ==
  IF dirs = <<>>
    THEN [satisfied |-> FALSE, dstDir |-> <<>>, dst |-> <<>>,
          conflict |-> conflict]
  ELSE
    LET mpath == Head(dirs) \o <<name>>
        e == checkExisting(tree, mpath, commit, version)
    IN IF e[1]
         THEN IF e[2]
                THEN [satisfied |-> TRUE, dstDir |-> <<>>, dst |-> <<>>,
                      conflict |-> conflict]
                ELSE searchDirs(tree, Tail(dirs), name, commit, version,
                                <<mpath>>)
         ELSE [satisfied |-> TRUE, dstDir |-> <<Head(dirs)>>,
               dst |-> <<mpath>>, conflict |-> conflict]

\* Mutant: a conflict without free slot is not an error.
determinePath_NoThrow(tree, pkg, name, version, commit, glob) ==
  LET dirs == IF glob # <<>> THEN << <<>> >> ELSE getParents(pkg)
      hasBundle == checkBundle(tree, pkg.dir, name, commit, version)
      found == searchDirs(IF glob # <<>> THEN glob[1] ELSE tree, dirs, name,
                          commit, version, <<>>)
  IN IF hasBundle
       THEN [err |-> FALSE, dstDir |-> <<>>, dst |-> <<>>]
       ELSE [err |-> FALSE, dstDir |-> found.dstDir, dst |-> found.dst]

\* determinePath: [err, dstDir, dst]; dst = <<>> is "no action".  glob is
\* <<>>, or in global mode <<the tree below this.env.globalLibRoot>>, where
\* the directory <<>> is the global library root.
determinePath(tree, pkg, name, version, commit, glob) ==
  LET dirs == IF glob # <<>> THEN << <<>> >> ELSE getParents(pkg)
      hasBundle == checkBundle(tree, pkg.dir, name, commit, version)
      found == searchDirs(IF glob # <<>> THEN glob[1] ELSE tree, dirs, name,
                          commit, version, <<>>)
  IN IF hasBundle
       THEN [err |-> FALSE, dstDir |-> <<>>, dst |-> <<>>]
       ELSE [err |-> ~found.satisfied /\ found.conflict # <<>>,
             dstDir |-> found.dstDir, dst |-> found.dst]

\* getVerifiedPath: the cache key of a tag or of a branch commit.
getVerifiedPath(tag, commit) ==
  IF commit # <<>> THEN [err |-> FALSE, oid |-> commit]
  ELSE IF tag[1].annotated # <<>>
    THEN [err |-> FALSE, oid |-> tag[1].annotated]
  ELSE IF tag[1].commit = <<>> THEN [err |-> TRUE, oid |-> <<>>]
  ELSE [err |-> FALSE, oid |-> tag[1].commit]

\* Mutant: a name in both maps is not an error.
getDependencies_NoCheck(info, production) ==
  IF production THEN [err |-> FALSE, deps |-> info.deps]
  ELSE [err |-> FALSE, deps |-> info.deps \o info.devDeps]

\* getDependencies: dependencies followed by devDependencies unless
\* production; a name in both is an error.
getDependencies(info, production) ==
  LET names == {info.deps[i].name : i \in DOMAIN info.deps}
      dup == \E i \in DOMAIN info.devDeps : info.devDeps[i].name \in names
  IN IF production THEN [err |-> FALSE, deps |-> info.deps]
     ELSE [err |-> dup, deps |-> info.deps \o info.devDeps]

(***************************************************************************)
(* State of a process running install().                                   *)
(***************************************************************************)
Empty == [x \in {} |-> TRUE]

CurNone ==
  [name |-> "", src |-> <<>>, git |-> <<>>, branch |-> <<>>, tag |-> <<>>,
   version |-> <<>>, commit |-> <<>>, dstDir |-> <<>>, dst |-> <<>>,
   oid |-> <<>>, hit |-> FALSE, stale |-> FALSE, cloned |-> FALSE,
   lib |-> FALSE]

HistNone ==
  [clones |-> 0, copies |-> 0, writes |-> 0, fs0 |-> Empty,
   afterOk |-> FALSE, fetchErr |-> <<>>, decision |-> <<>>, placed |-> {},
   production |-> FALSE, err |-> "", bare |-> FALSE, listed |-> {},
   conflict |-> <<>>, op |-> "", same |-> FALSE, descents |-> 0,
   verify |-> <<>>, sources |-> <<>>, global |-> FALSE, info0 |-> <<>>,
   steps |-> <<>>, afterErr |-> FALSE]

RootPkg == [dir |-> <<>>, parent |-> <<>>]

\* The tree below the global library root is fs[GlobalLib]; the tree of a
\* process is the one of its project.
GlobalLib == "lib"

\* A frame is a loop over dependencies that calls installModule: of an
\* installDependencies of the package pkg, or of install() with sources in
\* global mode (global), of the root package.  lib says that pkg is below
\* the global library root.
Frame(pkg, deps) ==
  [pkg |-> pkg, deps |-> deps, i |-> 1, installed |-> <<>>, j |-> 1,
   global |-> FALSE, lib |-> FALSE]

TreeOf(p, fr) == IF fr.lib THEN GlobalLib ELSE p

Top(p) == stack[p][Len(stack[p])]

SetTop(p, fr) == [stack EXCEPT ![p] = [@ EXCEPT ![Len(@)] = fr]]

Oid(p) == cur[p].oid[1]

\* this.info of a package object: the package.json of its directory.
InfoOf(p, fr) ==
  IF fr.pkg.dir = <<>> THEN rootInfo[p] ELSE fs[TreeOf(p, fr)][fr.pkg.dir]

\* this.env.basedir: the base of relative git+file:// templates.
BaseDir == << <<"/", "base">> >>

\* Mutant: the exception is caught and the next dependency is installed.
Throw_Caught(p, fetchErr, err, h) ==
  /\ status' = status
  /\ stack' = [stack EXCEPT ![p] = [@ EXCEPT ![Len(@)].i = @ + 1]]
  /\ pc' = [pc EXCEPT ![p] = "module"]
  /\ cur' = [cur EXCEPT ![p] = CurNone]
  /\ hist' = [hist EXCEPT ![p] = [h EXCEPT !.fetchErr = fetchErr,
                                           !.decision = <<>>, !.err = err]]

\* An exception with message err leaves installModule, installDependencies
\* and install: nothing catches it.  h holds the observations made before.
Throw(p, fetchErr, err, h) ==
  /\ status' = [status EXCEPT ![p] = "error"]
  /\ stack' = [stack EXCEPT ![p] = <<>>]
  /\ pc' = [pc EXCEPT ![p] = "idle"]
  /\ cur' = [cur EXCEPT ![p] = CurNone]
  /\ hist' = [hist EXCEPT ![p] = [h EXCEPT !.fetchErr = fetchErr,
                                           !.decision = <<>>, !.err = err]]

\* HEAD of a clone with --branch <tag or branch> of the running
\* installModule: the commit the tag or the branch points to.
HeadOf(p) ==
  IF cur[p].commit # <<>> THEN cur[p].commit[1]
  ELSE CommitOid(RepoOf(cur[p].git), cur[p].tag[1].name)

FetchErr(p) ==
  <<[oid |-> Oid(p), dst |-> cur[p].dst[1], head |-> HeadOf(p)]>>


\* The order of the names as strings ("c" < "d" < "e" < "f").
NameOrder == <<"c", "d", "e", "f">>

NameRank(n) == CHOOSE i \in DOMAIN NameOrder : NameOrder[i] = n

\* entries.sort(Package.sortDependencyEntries): the entries sorted by name,
\* entries of the same name in the order they had.
RECURSIVE sortDependencyEntries(_)
sortDependencyEntries(deps) ==
  IF deps = <<>> THEN <<>>
  ELSE LET m == CHOOSE i \in DOMAIN deps :
                  \A j \in DOMAIN deps :
                    \/ NameRank(deps[i].name) < NameRank(deps[j].name)
                    \/ NameRank(deps[i].name) = NameRank(deps[j].name)
                       /\ i <= j
       IN <<deps[m]>> \o
          sortDependencyEntries(SubSeq(deps, 1, m - 1)
                                \o SubSeq(deps, m + 1, Len(deps)))

\* for (const [name, src] of entries) object[name] = src: a key of the
\* object keeps its place and gets the value, a new key comes last.
RECURSIVE assign(_, _)
assign(object, entries) ==
  IF entries = <<>> THEN object
  ELSE LET e == Head(entries)
           at == {i \in DOMAIN object : object[i].name = e.name}
       IN assign(IF at = {} THEN Append(object, e)
                 ELSE [i \in DOMAIN object |->
                         IF i \in at THEN e ELSE object[i]],
                 Tail(entries))

\* Mutant: package.json is written also without new dependencies.
addToPackage_AlwaysWrites(info, deps) ==
  [written |-> TRUE,
   info |-> [info EXCEPT
               !.deps = assign(@, sortDependencyEntries(@ \o deps))]]

\* addToPackage: without new dependencies the package.json is not written;
\* else the old and the new entries are sorted and assigned to the
\* dependencies the package.json has, and it is written.
addToPackage(info, deps) ==
  IF deps = <<>> THEN [written |-> FALSE, info |-> info]
  ELSE [written |-> TRUE,
        info |-> [info EXCEPT
                    !.deps = assign(@, sortDependencyEntries(@ \o deps))]]

(***************************************************************************)
(* install([], {production}) of the root package: determineSources         *)
(* returns no dependencies and addToPackage has nothing to do, then        *)
(* installDependencies starts.                                             *)
(***************************************************************************)
StartInstall(p) ==
  /\ status[p] \in {"idle", "done", "error", "removed"}
  /\ runs[p] < MaxRuns
  /\ runs' = [runs EXCEPT ![p] = @ + 1]
  /\ \E production \in
          (IF rootInfo[p].devDeps = <<>> THEN {FALSE} ELSE BOOLEAN) :
       LET added == addToPackage(rootInfo[p], <<>>)
           d == getDependencies(added.info, production)
       IN /\ rootInfo' = [rootInfo EXCEPT ![p] = added.info]
          /\ status' = [status EXCEPT
                          ![p] = IF d.err THEN "error" ELSE "running"]
          /\ stack' = [stack EXCEPT
                         ![p] = IF d.err THEN <<>>
                                ELSE <<Frame(RootPkg, d.deps)>>]
          /\ pc' = [pc EXCEPT ![p] = IF d.err THEN "idle" ELSE "module"]
          /\ hist' = [hist EXCEPT
                        ![p] = [HistNone EXCEPT
                                  !.fs0 = fs[p],
                                  !.afterOk = (status[p] = "done"),
                                  !.afterErr = (/\ status[p] = "error"
                                                /\ hist[p].op = "install"),
                                  !.writes = IF added.written THEN 1 ELSE 0,
                                  !.placed = hist[p].placed,
                                  !.production = production,
                                  !.op = "install",
                                  !.same = (/\ hist[p].op = "install"
                                            /\ hist[p].production
                                                 = production),
                                  !.err = IF d.err THEN "Duplicate dependency."
                                          ELSE ""]]
  /\ cur' = [cur EXCEPT ![p] = CurNone]
  /\ UNCHANGED <<world, call, cache, unverified, fs, faults>>

\* Mutant: the cache entry is never found.
hasVerified_Never(entries, oid) == FALSE

\* exists(verified)
hasVerified(entries, oid) == oid \in DOMAIN entries

\* Observation of a determinePath call: the request and the result.
Decision(pkg, name, version, commit, dp) ==
  [pkg |-> pkg, name |-> name, version |-> version, commit |-> commit,
   dst |-> dp.dst]

(***************************************************************************)
(* installModule up to the cache lookup: resolveRemote, listBranches,      *)
(* determinePath, listTags / matchTag, getVerifiedPath, exists(verified).  *)
(***************************************************************************)
ModuleBegin(p) ==
  /\ status[p] = "running" /\ pc[p] = "module"
  /\ Top(p).i <= Len(Top(p).deps)
  /\ Top(p).global => Top(p).j > Len(Top(p).installed)
  /\ LET fr == Top(p)
         name == fr.deps[fr.i].name
         src == fr.deps[fr.i].src
         lib == IF fr.global THEN <<fs[GlobalLib]>> ELSE <<>>
     IN
     \E r \in {resolveRemote(InfoOf(p, fr).remotes, BaseDir, name, src,
                              fr.global)} :
     \E branches \in {IF r.git = <<>> THEN Empty
                      ELSE listBranches(r.git[1]).branches} :
     \E commit \in {IF /\ r.branch # <<>> /\ r.git # <<>>
                       /\ r.branch[1] \in DOMAIN branches
                      THEN <<branches[r.branch[1]]>> ELSE <<>>} :
     \E dp \in {determinePath(fs[TreeOf(p, fr)], fr.pkg, name, r.version,
                              commit, lib)} :
     \E tags \in {IF r.git = <<>> THEN Empty ELSE listTags(r.git[1])} :
     \E match \in {IF r.branch # <<>> \/ r.git = <<>> THEN <<>>
                    ELSE matchTag(DOMAIN tags, r.version)} :
     \E tag \in {IF match = <<>> THEN <<>> ELSE <<tags[match[1]]>>} :
     \E vp \in {IF tag = <<>> /\ commit = <<>>
                   THEN [err |-> TRUE, oid |-> <<>>]
                   ELSE getVerifiedPath(tag, commit)} :
     LET isBranch == r.branch # <<>>
         noGit == r.git = <<>>
         noBranch == isBranch /\ ~noGit /\ r.branch[1] \notin DOMAIN branches
         dec == Decision(fr.pkg, name, r.version, commit, dp)
         h == [hist[p] EXCEPT
                 !.bare = @ \/ (r.err = "" /\ noGit),
                 !.listed = IF r.err = "" /\ isBranch /\ ~noGit
                              THEN @ \cup {r.branch[1]} ELSE @]
     IN IF r.err # ""
          THEN Throw(p, <<>>, r.err, hist[p]) /\ UNCHANGED <<fs>>
        ELSE IF isBranch /\ noGit
          THEN Throw(p, <<>>, "Unknown remote.", h) /\ UNCHANGED <<fs>>
        ELSE IF isBranch /\ noBranch
          THEN Throw(p, <<>>, "Unknown branch.", h) /\ UNCHANGED <<fs>>
        ELSE IF dp.err
          THEN /\ Throw(p, <<>>, "Existing.",
                     [h EXCEPT !.conflict =
                        <<[pkg |-> dec.pkg, name |-> dec.name,
                           version |-> dec.version, commit |-> dec.commit,
                           tree |-> fs[p], before |-> hist[p].placed]>>])
               /\ UNCHANGED <<fs>>
        ELSE IF dp.dst = <<>>
          THEN /\ stack' = SetTop(p, [fr EXCEPT
                                        !.i = IF fr.global
                                                THEN Len(fr.deps) + 1
                                                ELSE @ + 1])
               /\ hist' = [hist EXCEPT ![p] = [h EXCEPT !.decision = <<dec>>]]
               /\ UNCHANGED <<status, pc, cur, fs>>
        ELSE IF ~isBranch /\ noGit
          THEN Throw(p, <<>>, "Unknown remote.", h) /\ UNCHANGED <<fs>>
        ELSE IF ~isBranch /\ match = <<>>
          THEN Throw(p, <<>>, "Unknown tag.", h) /\ UNCHANGED <<fs>>
        ELSE IF vp.err
          THEN Throw(p, <<>>, "Unknown commit.", h) /\ UNCHANGED <<fs>>
        ELSE
          /\ cur' = [cur EXCEPT ![p] =
                [name |-> name, src |-> <<src>>, git |-> r.git[1],
                 branch |-> r.branch, tag |-> tag, version |-> r.version,
                 commit |-> commit, dstDir |-> dp.dstDir, dst |-> dp.dst,
                 oid |-> vp.oid,
                 hit |-> hasVerified(cache, vp.oid[1]), stale |-> FALSE,
                 cloned |-> FALSE, lib |-> (fr.global \/ fr.lib)]]
          /\ pc' = [pc EXCEPT ![p] = IF hasVerified(cache, vp.oid[1])
                                       THEN "copy" ELSE "fetch"]
          /\ hist' = [hist EXCEPT ![p] = [h EXCEPT !.decision = <<dec>>]]
          /\ UNCHANGED <<status, stack, fs>>
  /\ UNCHANGED <<world, rootInfo, call, cache, unverified, runs, faults>>

(***************************************************************************)
(* fetchVerified.  A directory of the cache is                             *)
(* [commit, complete, verified, writer]: commit is its HEAD, complete says *)
(* that a clone produced the whole worktree, verified that a verify-tag or *)
(* verify-commit run in it exited 0, writer is the process whose git clone *)
(* is writing into it.                                                     *)
(***************************************************************************)
\* if (!await exists(unverified)) cloneRepo(...)
FetchCheck(p) ==
  /\ status[p] = "running" /\ pc[p] = "fetch"
  /\ IF Oid(p) \in DOMAIN unverified
       THEN /\ pc' = [pc EXCEPT ![p] = "verify"]
            /\ cur' = [cur EXCEPT ![p].stale = TRUE]
       ELSE /\ pc' = [pc EXCEPT ![p] = "clone"]
            /\ cur' = cur
  /\ UNCHANGED <<world, rootInfo, call, cache, unverified, fs, status, stack,
                 runs, faults, hist>>

\* git clone --depth 1 --branch <ref> <git> <dst>-unverified starts: it
\* refuses a destination that exists, else it creates the directory.
CloneStart(p) ==
  /\ status[p] = "running" /\ pc[p] = "clone"
  /\ IF Oid(p) \in DOMAIN unverified
       THEN /\ Throw(p, FetchErr(p), "fetch", hist[p])
            /\ UNCHANGED <<unverified>>
       ELSE /\ unverified' = With(unverified, Oid(p),
                 [commit |-> HeadOf(p), complete |-> FALSE,
                  verified |-> FALSE, writer |-> <<p>>])
            /\ pc' = [pc EXCEPT ![p] = "cloning"]
            /\ hist' = [hist EXCEPT ![p].clones = @ + 1]
            /\ UNCHANGED <<status, stack, cur>>
  /\ UNCHANGED <<world, rootInfo, call, cache, fs, runs, faults>>

OwnsClone(p) ==
  /\ Oid(p) \in DOMAIN unverified
  /\ unverified[Oid(p)].writer = <<p>>

\* git clone exits 0.
CloneFinish(p) ==
  /\ status[p] = "running" /\ pc[p] = "cloning"
  /\ OwnsClone(p)
  /\ unverified' = [unverified EXCEPT ![Oid(p)].complete = TRUE,
                                      ![Oid(p)].writer = <<>>]
  /\ pc' = [pc EXCEPT ![p] = "verify"]
  /\ cur' = [cur EXCEPT ![p].cloned = TRUE]
  /\ UNCHANGED <<world, rootInfo, call, cache, fs, status, stack, runs,
                 faults, hist>>

\* git clone fails or is killed: the destination is removed (git's own
\* cleanup) or stays behind incomplete (kill, failed checkout).  When the
\* destination was renamed away under the clone, the clone fails too.
CloneFail(p) ==
  /\ status[p] = "running" /\ pc[p] = "cloning"
  /\ IF OwnsClone(p)
       THEN /\ faults < MaxFaults
            /\ faults' = faults + 1
            /\ \E leave \in BOOLEAN :
                 unverified' =
                   IF leave
                     THEN [unverified EXCEPT ![Oid(p)].writer = <<>>]
                     ELSE Without(unverified, Oid(p))
            /\ cache' = cache
       ELSE /\ faults' = faults
            /\ unverified' = unverified
            /\ cache' = [o \in DOMAIN cache |->
                           IF cache[o].writer = <<p>>
                             THEN [cache[o] EXCEPT !.writer = <<>>]
                             ELSE cache[o]]
  /\ Throw(p, FetchErr(p), "fetch", hist[p])
  /\ UNCHANGED <<world, rootInfo, call, fs, runs>>

\* verifyRepo(tag, commit, dst): the git command it runs.
verifyRepo(tag, commit) ==
  IF tag # <<>> THEN [cmd |-> "verify-tag", arg |-> tag]
  ELSE [cmd |-> "verify-commit", arg |-> commit]

\* Mutant: every tag is verified as a tag.
verification_TagByName(branch, tag) ==
  IF branch # <<>> THEN verifyRepo(<<>>, branch)
  ELSE verifyRepo(<<tag[1].name>>, <<>>)

\* fetchVerified: the verifyRepo call for a branch, for an annotated tag
\* and for a tag that is not annotated.
verification(branch, tag) ==
  IF branch # <<>> THEN verifyRepo(<<>>, branch)
  ELSE IF tag[1].annotated # <<>> THEN verifyRepo(<<tag[1].name>>, <<>>)
  ELSE verifyRepo(<<>>, tag[1].commit)

\* Observation of a verification: the command and what was fetched.
Verified(p) ==
  [run |-> verification(cur[p].branch, cur[p].tag), git |-> cur[p].git,
   branch |-> cur[p].branch, tag |-> cur[p].tag]

\* Mutant: the exit status of the verification is ignored.
Verify_ExitIgnored(p) ==
  /\ status[p] = "running" /\ pc[p] = "verify"
  /\ IF Oid(p) \notin DOMAIN unverified
       THEN /\ Throw(p, FetchErr(p), "fetch", hist[p])
            /\ UNCHANGED <<unverified, faults>>
       ELSE \E ok \in BOOLEAN :
              /\ unverified' = [unverified EXCEPT ![Oid(p)].verified = (@ \/ ok)]
              /\ pc' = [pc EXCEPT ![p] = "rename"]
              /\ hist' = [hist EXCEPT ![p].verify = <<Verified(p)>>]
              /\ UNCHANGED <<status, stack, cur, faults>>
  /\ UNCHANGED <<world, rootInfo, call, cache, fs, runs>>

\* verifyRepo(tag, commit, unverified): git verify-tag / verify-commit with
\* cwd = unverified.  The exit status depends on the signature and on the
\* keyring; a failure on a complete clone is an injected fault.
Verify(p) ==
  /\ status[p] = "running" /\ pc[p] = "verify"
  /\ IF Oid(p) \notin DOMAIN unverified
       THEN /\ Throw(p, FetchErr(p), "fetch", hist[p])
            /\ UNCHANGED <<unverified, faults>>
       ELSE \E ok \in BOOLEAN :
              IF ok
                THEN /\ unverified' =
                          [unverified EXCEPT ![Oid(p)].verified = TRUE]
                     /\ pc' = [pc EXCEPT ![p] = "rename"]
                     /\ hist' = [hist EXCEPT ![p].verify = <<Verified(p)>>]
                     /\ UNCHANGED <<status, stack, cur, faults>>
                ELSE /\ \/ /\ ~unverified[Oid(p)].complete
                           /\ faults' = faults
                        \/ /\ unverified[Oid(p)].complete
                           /\ faults < MaxFaults
                           /\ faults' = faults + 1
                     /\ Throw(p, FetchErr(p), "fetch",
                              [hist[p] EXCEPT !.verify = <<Verified(p)>>])
                     /\ UNCHANGED <<unverified>>
  /\ UNCHANGED <<world, rootInfo, call, cache, fs, runs>>

\* rename(unverified, dst): ENOENT without the source, ENOTEMPTY onto an
\* existing cache entry.
Rename(p) ==
  /\ status[p] = "running" /\ pc[p] = "rename"
  /\ IF Oid(p) \notin DOMAIN unverified \/ Oid(p) \in DOMAIN cache
       THEN /\ Throw(p, FetchErr(p), "fetch", hist[p])
            /\ UNCHANGED <<cache, unverified>>
       ELSE /\ cache' = With(cache, Oid(p), unverified[Oid(p)])
            /\ unverified' = Without(unverified, Oid(p))
            /\ pc' = [pc EXCEPT ![p] = "copy"]
            /\ UNCHANGED <<status, stack, cur, hist>>
  /\ UNCHANGED <<world, rootInfo, call, fs, runs, faults>>

(***************************************************************************)
(* installModule after the cache entry exists: getHeadCommit, ensureDir,   *)
(* copyPackage and injectMeta, then back in installDependencies the        *)
(* destination is pushed on installed.  The manifest of an incomplete      *)
(* cache entry may be missing, and then copyPackage throws.                *)
(***************************************************************************)
Site(info, head, branch, complete) ==
  [name |-> info.name, version |-> info.version, remotes |-> info.remotes,
   deps |-> info.deps, devDeps |-> <<>>, commit |-> head, branch |-> branch,
   complete |-> complete]

\* Observation of an install site: the request and the package whose
\* dependency it is.
Placement(p) ==
  [name |-> cur[p].name, dst |-> cur[p].dst[1], dstDir |-> cur[p].dstDir[1],
   version |-> cur[p].version, commit |-> cur[p].commit,
   pkg |-> Top(p).pkg, oid |-> Oid(p)]

\* Mutant: the tag object checked out is taken for its commit.
getHeadCommit_TagObject(entries, oid) ==
  [entries[oid].commit EXCEPT !.kind = "tag"]

\* getHeadCommit(verified): the commit checked out in the cache entry.
getHeadCommit(entries, oid) == entries[oid].commit

CopyInject(p) ==
  /\ status[p] = "running" /\ pc[p] = "copy"
  /\ LET entry == cache[Oid(p)]
         head == getHeadCommit(cache, Oid(p))
         info == RepoManifest(world, head)
         dst == cur[p].dst[1]
         fr == Top(p)
         root == IF cur[p].lib THEN GlobalLib ELSE p
     IN \E manifest \in BOOLEAN :
          /\ entry.complete => manifest
          /\ IF manifest /\ dst \notin DOMAIN fs[root]
               THEN /\ fs' = [fs EXCEPT ![root] =
                         With(@, dst, Site(info, head, cur[p].branch,
                                           entry.complete))]
                    /\ stack' = SetTop(p,
                         [fr EXCEPT !.i = @ + 1,
                                    !.installed = Append(@, dst)])
                    /\ pc' = [pc EXCEPT ![p] = "module"]
                    /\ cur' = [cur EXCEPT ![p] = CurNone]
                    /\ hist' = [hist EXCEPT
                                  ![p].copies = @ + 1,
                                  ![p].writes = @ + 1,
                                  ![p].decision = <<>>,
                                  ![p].placed = @ \cup {Placement(p)}]
                    /\ UNCHANGED <<status>>
               ELSE Throw(p, <<>>, "copy", hist[p]) /\ UNCHANGED <<fs>>
  /\ UNCHANGED <<world, rootInfo, call, cache, unverified, runs, faults>>

\* Mutant: the installed module is read without its parent.
Descend_NoParent(p) ==
  /\ status[p] = "running" /\ pc[p] = "module"
  /\ Top(p).global \/ Top(p).i > Len(Top(p).deps)
  /\ Top(p).j <= Len(Top(p).installed)
  /\ LET fr == Top(p)
         next == fr.installed[fr.j]
         lib == fr.global \/ fr.lib
         dep == [dir |-> next, parent |-> <<>>]
         d == getDependencies(fs[IF lib THEN GlobalLib ELSE p][next], TRUE)
     IN stack' = [stack EXCEPT ![p] =
                    Append([@ EXCEPT ![Len(@)].j = fr.j + 1],
                           [Frame(dep, d.deps) EXCEPT !.lib = lib])]
  /\ hist' = [hist EXCEPT ![p].descents = @ + 1]
  /\ UNCHANGED <<world, rootInfo, call, cache, unverified, fs, status, pc,
                 cur, runs, faults>>

(***************************************************************************)
(* installDependencies, second loop: every freshly installed module is     *)
(* read from its directory with parent = this and its production           *)
(* dependencies are installed.  install() with sources in global mode      *)
(* does so after every installModule, with parent = null.                  *)
(***************************************************************************)
\* Mutant: the second loop of installDependencies does not wait for the
\* first one.
FirstLoopDone_Any(fr) == TRUE

\* The loop of installDependencies over the dependencies is at its end;
\* install() with sources in global mode has one loop only.
FirstLoopDone(fr) == fr.global \/ fr.i > Len(fr.deps)

Descend(p) ==
  /\ status[p] = "running" /\ pc[p] = "module"
  /\ FirstLoopDone(Top(p))
  /\ Top(p).j <= Len(Top(p).installed)
  /\ LET fr == Top(p)
         next == fr.installed[fr.j]
         lib == fr.global \/ fr.lib
         dep == [dir |-> next,
                 parent |-> IF fr.global THEN <<>>
                            ELSE <<fr.pkg.dir>> \o fr.pkg.parent]
         d == getDependencies(fs[IF lib THEN GlobalLib ELSE p][next], TRUE)
     IN stack' = [stack EXCEPT ![p] =
                    Append([@ EXCEPT ![Len(@)].j = fr.j + 1],
                           [Frame(dep, d.deps) EXCEPT !.lib = lib])]
  /\ hist' = [hist EXCEPT ![p].descents = @ + 1]
  /\ UNCHANGED <<world, rootInfo, call, cache, unverified, fs, status, pc,
                 cur, runs, faults>>

\* Mutant: the installDependencies of the installed modules are not
\* awaited.
FrameDone_NotAwaited(fr) == fr.i > Len(fr.deps)

\* Both loops of installDependencies are at their end.
FrameDone(fr) == fr.i > Len(fr.deps) /\ fr.j > Len(fr.installed)

\* installDependencies of a dependency returns to its caller.
Return(p) ==
  /\ status[p] = "running" /\ pc[p] = "module"
  /\ Len(stack[p]) > 1
  /\ FrameDone(Top(p))
  /\ stack' = [stack EXCEPT ![p] = SubSeq(@, 1, Len(@) - 1)]
  /\ UNCHANGED <<world, rootInfo, call, cache, unverified, fs, status, pc,
                 cur, runs, faults, hist>>

\* readdir: the entries of a directory, in some order.
RECURSIVE SeqOfSet(_)
SeqOfSet(S) ==
  IF S = {} THEN <<>>
  ELSE LET x == CHOOSE y \in S : TRUE IN <<x>> \o SeqOfSet(S \ {x})

readdir(tree, from) ==
  SeqOfSet({f \in DOMAIN tree :
              Len(f) = Len(from) + 1 /\ SubSeq(f, 1, Len(from)) = from})

\* Mutant: a package is built before the packages below it.
RECURSIVE rebuild_PreOrder(_, _)
RECURSIVE rebuildEach_PreOrder(_, _)
rebuildEach_PreOrder(tree, dependencies) ==
  IF dependencies = <<>> THEN <<>>
  ELSE rebuild_PreOrder(tree, Head(dependencies))
       \o rebuildEach_PreOrder(tree, Tail(dependencies))

rebuild_PreOrder(tree, dir) ==
  <<dir>> \o rebuildEach_PreOrder(tree, readdir(tree, dir))

\* rebuild(dir): the directories rebuildModule is called with, in the order
\* of the calls.
RECURSIVE rebuild(_, _)
RECURSIVE rebuildEach(_, _)
rebuildEach(tree, dependencies) ==
  IF dependencies = <<>> THEN <<>>
  ELSE rebuild(tree, Head(dependencies))
       \o rebuildEach(tree, Tail(dependencies))

rebuild(tree, dir) == rebuildEach(tree, readdir(tree, dir)) \o <<dir>>

\* The steps of install() after installDependencies, in their order.
FinishSteps(built, global) ==
  [k \in 1..Len(built) |-> [op |-> "rebuild", dir |-> built[k]]]
  \o (IF global THEN <<[op |-> "linkGlobal", dir |-> <<>>]>> ELSE <<>>)
  \o <<[op |-> "linkBin", dir |-> <<>>],
       [op |-> "linkDependenciesBin", dir |-> <<>>]>>

\* installDependencies of the root returns: install() rebuilds, links the
\* executables and returns 0.
Finish(p) ==
  /\ status[p] = "running" /\ pc[p] = "module"
  /\ Len(stack[p]) = 1
  /\ FrameDone(Top(p))
  /\ stack' = [stack EXCEPT ![p] = <<>>]
  /\ status' = [status EXCEPT ![p] = "done"]
  /\ pc' = [pc EXCEPT ![p] = "idle"]
  /\ \E built \in {IF Top(p).global THEN <<>> ELSE rebuild(fs[p], <<>>)} :
       hist' = [hist EXCEPT
                  ![p].steps = IF Top(p).global THEN <<>>
                               ELSE FinishSteps(built, hist[p].global)]
  /\ UNCHANGED <<world, rootInfo, call, cache, unverified, fs, cur, runs,
                 faults>>

(***************************************************************************)
(* install(sources, {global, production}) with sources of the command      *)
(* line.  determineSources resolves every source and discoverRepo selects  *)
(* the tag or the branch, fetches it into the cache when it is not there   *)
(* and reads the package.json of the cache entry.                          *)
(***************************************************************************)
\* fetchVerified as a whole: an -unverified directory left by an earlier
\* clone is taken as it is; ok says that the clone and the verification
\* exit 0.
fetchVerified(entries, temp, oid, head, ok) ==
  LET clone == IF oid \in DOMAIN temp THEN temp[oid]
               ELSE [commit |-> head, complete |-> TRUE, verified |-> FALSE,
                     writer |-> <<>>]
  IN IF ok
       THEN [err |-> "",
             entries |-> With(entries, oid, [clone EXCEPT !.verified = TRUE]),
             temp |-> Without(temp, oid)]
       ELSE [err |-> "fetch", entries |-> entries, temp |-> temp]

\* discoverRepo up to the cache path: the tag selected among the tags of
\* the remote, else the branch given or the head branch and its commit.
\* [err, tag, branch, commit]
discoverRef(git, version, branch) ==
  CHOOSE out \in
    {CHOOSE r \in
       {LET tag == IF sel.tag = <<>> THEN <<>> ELSE <<tags[sel.tag[1]]>>
            listed == listBranches(git)
            br == IF branch # <<>> THEN branch ELSE <<listed.head>>
            known == br[1] \in DOMAIN listed.branches
        IN [err |-> IF sel.err # "" THEN sel.err
                    ELSE IF tag = <<>> /\ ~known THEN "Unknown branch."
                    ELSE "",
            tag |-> tag,
            branch |-> IF tag = <<>> THEN br ELSE <<>>,
            commit |-> IF tag = <<>> /\ known
                         THEN <<listed.branches[br[1]]>> ELSE <<>>] :
        sel \in {IF branch = <<>> THEN discoverTag(DOMAIN tags, version)
                 ELSE [err |-> "", tag |-> <<>>]}} : TRUE :
     tags \in {IF branch = <<>> THEN listTags(git) ELSE Empty}} : TRUE

\* discoverRepo from the cache path on: exists(verified), fetchVerified,
\* Package.fromDirectory.  manifest says that the cache entry has a
\* package.json; a complete one has.
discoverInfo(w, entries, temp, git, ref, ok, manifest) ==
  LET vp == getVerifiedPath(ref.tag, ref.commit)
      head == IF ref.commit # <<>> THEN ref.commit[1]
              ELSE CommitOid(RepoOf(git), ref.tag[1].name)
      Fail(e) == [err |-> e, info |-> <<>>, entries |-> entries,
                  temp |-> temp]
  IN IF vp.err THEN Fail("Unknown commit.")
     ELSE CHOOSE out \in
       {IF f.err # "" THEN Fail(f.err)
        ELSE [err |-> "", entries |-> f.entries, temp |-> f.temp,
              info |->
                IF ~(f.entries[vp.oid[1]].complete \/ manifest)
                  THEN [name |-> <<>>, version |-> <<>>, branch |-> <<>>]
                  ELSE [name |->
                          <<RepoManifest(w, getHeadCommit(f.entries,
                                                          vp.oid[1])).name>>,
                        version |->
                          IF ref.tag = <<>> THEN <<>>
                          ELSE <<semverParse(ref.tag[1].name)[1].version>>,
                        branch |-> ref.branch]] :
          f \in {IF hasVerified(entries, vp.oid[1])
                   THEN [err |-> "", entries |-> entries, temp |-> temp]
                   ELSE fetchVerified(entries, temp, vp.oid[1], head, ok)}} :
          TRUE

\* discoverRepo(git, version, branch): [err, info, entries, temp]
discoverRepo(w, entries, temp, git, version, branch, ok, manifest) ==
  CHOOSE out \in
    {IF ref.err # ""
       THEN [err |-> ref.err, info |-> <<>>, entries |-> entries,
             temp |-> temp]
       ELSE discoverInfo(w, entries, temp, git, ref, ok, manifest) :
     ref \in {discoverRef(git, version, branch)}} : TRUE

\* The range "^<version>" written for a discovered version.
CaretOf(v) == <<"semver", ":">> \o Caret(v)

\* The body of the loop of determineSources for one source:
\* [err, dep, entries, temp]
determineSource(w, entries, temp, src, global, ok, manifest) ==
  LET r == resolveRemote(<<>>, BaseDir, "", <<"git+">> \o src, global)
  IN IF r.err # "" \/ r.git = <<>>
       THEN [err |-> "Unknown remote.", dep |-> <<>>, entries |-> entries,
             temp |-> temp]
     ELSE CHOOSE out \in
       {[err |-> IF d.err # "" THEN d.err
                 ELSE IF d.info.branch = <<>> /\ d.info.version = <<>>
                   THEN "Unknown info." ELSE "",
         dep |-> IF d.err # "" THEN <<>>
                 ELSE IF d.info.branch # <<>>
                   THEN <<Dep(d.info.name[1],
                              <<"git+">> \o r.git[1] \o <<"#">>
                              \o d.info.branch)>>
                 ELSE IF d.info.version # <<>>
                   THEN <<Dep(d.info.name[1],
                              <<"git+">> \o r.git[1] \o <<"#">>
                              \o CaretOf(d.info.version[1]))>>
                 ELSE <<>>,
         entries |-> d.entries, temp |-> d.temp] :
          d \in {discoverRepo(w, entries, temp, r.git[1], r.version,
                              r.branch, ok, manifest)}} : TRUE

\* determineSources: the loop over the sources; deps is the object built
\* so far.  [err, deps, entries, temp]
RECURSIVE determineSources(_, _, _, _, _, _, _, _)
determineSources(w, entries, temp, sources, global, deps, ok, manifest) ==
  IF sources = <<>>
    THEN [err |-> "", deps |-> deps, entries |-> entries, temp |-> temp]
  ELSE CHOOSE out \in
    {IF one.err # ""
       THEN [err |-> one.err, deps |-> deps, entries |-> one.entries,
             temp |-> one.temp]
       ELSE determineSources(w, one.entries, one.temp, Tail(sources), global,
                             assign(deps, one.dep), ok, manifest) :
       one \in {determineSource(w, entries, temp, Head(sources), global, ok,
                                manifest)}} : TRUE

\* Mutant: sources are never installed standalone.
standalone_Never(sources, global) == FALSE

\* if (options.global && sources.length > 0)
standalone(sources, global) == global /\ sources # <<>>

\* A source of the command line: the url of a repository.
Url(repo) == <<"file://", "/", "data", "/", repo, "/", ".git">>

\* The sources given to install: one or two urls, without fragment, with a
\* range or with a branch.
SourceLists ==
  LET one == {Url("c"), Url("d") \o <<"#", "semver", ":">> \o Caret(V100),
              Url("f") \o <<"#">> \o Master}
  IN {<<x>> : x \in one} \cup {<<Url("c"), Url("f") \o <<"#">> \o Master>>}

InstallSources(p) ==
  /\ status[p] \in {"idle", "done", "error", "removed"}
  /\ runs[p] < MaxRuns
  /\ runs' = [runs EXCEPT ![p] = @ + 1]
  /\ \E sources \in SourceLists, global \in BOOLEAN, ok \in BOOLEAN,
        manifest \in BOOLEAN,
        production \in
          (IF rootInfo[p].devDeps = <<>> THEN {FALSE} ELSE BOOLEAN) :
       \E ds \in {determineSources(world, cache, unverified, sources, global,
                                   <<>>, ok, manifest)} :
       LET alone == standalone(sources, global)
           added == IF alone \/ ds.err # ""
                      THEN [written |-> FALSE, info |-> rootInfo[p]]
                      ELSE addToPackage(rootInfo[p], ds.deps)
           d == IF alone THEN [err |-> FALSE, deps |-> ds.deps]
                ELSE getDependencies(added.info, production)
           err == IF ds.err # "" THEN ds.err
                  ELSE IF d.err THEN "Duplicate dependency." ELSE ""
       IN /\ ~ok => faults < MaxFaults
          /\ faults' = IF ok THEN faults ELSE faults + 1
          /\ cache' = ds.entries
          /\ unverified' = ds.temp
          /\ rootInfo' = [rootInfo EXCEPT ![p] = added.info]
          /\ status' = [status EXCEPT
                          ![p] = IF err # "" THEN "error" ELSE "running"]
          /\ stack' = [stack EXCEPT
                         ![p] = IF err # "" THEN <<>>
                                ELSE <<[Frame(RootPkg, d.deps)
                                          EXCEPT !.global = alone]>>]
          /\ pc' = [pc EXCEPT ![p] = IF err # "" THEN "idle" ELSE "module"]
          /\ hist' = [hist EXCEPT
                        ![p] = [HistNone EXCEPT
                                  !.fs0 = fs[p],
                                  !.afterOk = (status[p] = "done"),
                                  !.writes = IF added.written THEN 1 ELSE 0,
                                  !.placed = hist[p].placed,
                                  !.production = production,
                                  !.op = "install",
                                  !.sources = ds.deps,
                                  !.global = global,
                                  !.info0 = <<rootInfo[p]>>,
                                  !.err = err]]
  /\ cur' = [cur EXCEPT ![p] = CurNone]
  /\ UNCHANGED <<world, call, fs>>

(***************************************************************************)
(* uninstall(sources, {production}) of the root package:                   *)
(* removeFromPackage, then uninstallDependencies removes every directory   *)
(* of <root>/node_modules that isRequired does not find required.          *)
(***************************************************************************)
\* removeFromPackage: every source must be a dependency; the remaining
\* dependencies are written sorted.
removeFromPackage(pinfo, sources) ==
  LET names == {pinfo.deps[i].name : i \in DOMAIN pinfo.deps}
      gone == {sources[i] : i \in DOMAIN sources}
      rest == SelectSeq(pinfo.deps, LAMBDA d : d.name \notin gone)
  IN IF \/ \E i \in DOMAIN sources : sources[i] \notin names
        \/ \E i, j \in DOMAIN sources : i < j /\ sources[i] = sources[j]
       THEN [err |-> "Dependency not found.", info |-> pinfo]
       ELSE [err |-> "",
             info |-> [pinfo EXCEPT !.deps = sortDependencyEntries(rest)]]

\* checkPackage of isRequired: the dependencies it looks at are those of
\* the package isRequired was called on (this), for every directory.
RECURSIVE checkPackage(_, _, _, _, _, _)
checkPackage(tree, this, deps, dir, name, site) ==
  IF dir # <<>> /\ dir \notin DOMAIN tree THEN FALSE
  ELSE
    \/ \E i \in DOMAIN deps :
         /\ deps[i].name = name
         /\ LET remote == resolveRemote(this.remotes, BaseDir, deps[i].name,
                                        deps[i].src, FALSE)
            IN IF site.branch # <<>>
                 THEN site.branch = remote.branch
                 ELSE satisfies(site.version, remote.version)
    \/ \E d \in DOMAIN tree :
         /\ Len(d) = Len(dir) + 1 /\ SubSeq(d, 1, Len(dir)) = dir
         /\ checkPackage(tree, this, deps, d, name, site)

\* isRequired(name, options) of the package at the root of tree.
isRequired(tree, this, name, production) ==
  LET d == getDependencies(this, production)
  IN [err |-> IF d.err THEN "Duplicate dependency." ELSE "",
      required |-> ~d.err /\ checkPackage(tree, this, d.deps, <<>>, name,
                                          tree[<<name>>])]

\* unlinkRecursive(<root>/node_modules/<name>)
unlinkRecursive(tree, name) ==
  [d \in {x \in DOMAIN tree : x[1] # name} |-> tree[d]]

\* uninstallDependencies: the loop over readdir(<root>/node_modules).
RECURSIVE uninstallDependencies(_, _, _, _)
uninstallDependencies(tree, this, names, production) ==
  IF names = <<>> THEN [err |-> "", tree |-> tree]
  ELSE IF <<Head(names)>> \notin DOMAIN tree
    THEN uninstallDependencies(tree, this, Tail(names), production)
  ELSE LET r == isRequired(tree, this, Head(names), production)
       IN IF r.err # "" THEN [err |-> r.err, tree |-> tree]
          ELSE uninstallDependencies(
                 IF r.required THEN tree
                 ELSE unlinkRecursive(tree, Head(names)),
                 this, Tail(names), production)

\* The names given to uninstall: none or one.
Removals == {<<>>, <<"c">>, <<"f">>}

Uninstall(p) ==
  /\ status[p] \in {"idle", "done", "error", "removed"}
  /\ runs[p] < MaxRuns
  /\ runs' = [runs EXCEPT ![p] = @ + 1]
  /\ \E sources \in Removals,
        production \in
          (IF rootInfo[p].devDeps = <<>> THEN {FALSE} ELSE BOOLEAN) :
       LET rm == removeFromPackage(rootInfo[p], sources)
           un == uninstallDependencies(fs[p], rm.info, NameOrder, production)
           err == IF rm.err # "" THEN rm.err ELSE un.err
       IN /\ rootInfo' = [rootInfo EXCEPT ![p] = rm.info]
          /\ fs' = [fs EXCEPT ![p] = IF rm.err # "" THEN @ ELSE un.tree]
          /\ status' = [status EXCEPT
                          ![p] = IF err # "" THEN "error" ELSE "removed"]
          /\ hist' = [hist EXCEPT
                        ![p] = [HistNone EXCEPT
                                  !.fs0 = fs[p],
                                  !.afterOk = (status[p] = "done"),
                                  !.writes = IF rm.err = "" THEN 1 ELSE 0,
                                  !.production = production,
                                  !.op = "uninstall",
                                  !.err = err]]
  /\ UNCHANGED <<world, call, cache, unverified, stack, pc, cur, faults>>

(***************************************************************************)
(* Inputs: the root manifest and the dependencies of the repositories.     *)
(***************************************************************************)
Manifest(deps, devDeps) ==
  [name |-> RootName, version |-> V100, remotes |-> <<Remotes>>,
   deps |-> deps, devDeps |-> devDeps]

NoDeps == [n \in Names |-> [deps |-> <<>>]]

World(rootDeps, repos) ==
  [root |-> Manifest(rootDeps, <<>>), repos |-> repos @@ NoDeps]

\* Dependency declarations used to generate manifests.
Decls ==
  {Dep("c", SemverSrc(Caret(V100))), Dep("d", SemverSrc(Caret(V100))),
   Dep("f", SemverSrc(Caret(V200))), Dep("f", SemverSrc(Tilde(V100)))}

DeclSeqs(decls, n) ==
  {<<>>} \cup {<<x>> : x \in decls}
  \cup (IF n < 2 THEN {}
        ELSE UNION {{<<x, y>> : y \in {z \in decls : z.name # x.name}} :
                      x \in decls})

GenWorlds ==
  {World(r, ("c" :> [deps |-> c]) @@ ("d" :> [deps |-> d])) :
     r \in DeclSeqs(Decls, 2) \ {<<>>},
     c \in DeclSeqs({x \in Decls : x.name # "c"}, 2),
     d \in DeclSeqs({x \in Decls : x.name = "f"}, 1)}

\* c and f depend on each other.
CycleWorld ==
  World(<<Dep("c", SemverSrc(Caret(V100)))>>,
        ("c" :> [deps |-> <<Dep("f", SemverSrc(Caret(V200)))>>])
        @@ ("f" :> [deps |-> <<Dep("c", SemverSrc(Caret(V100)))>>]))

\* Root a depends on c; c depends on d and e; d and e depend on f with
\* overlapping ranges.
UnflatWorld ==
  World(<<Dep("c", SemverSrc(Caret(V100)))>>,
        ("c" :> [deps |-> <<Dep("d", SemverSrc(Caret(V100))),
                            Dep("e", SemverSrc(Caret(V100)))>>])
        @@ ("d" :> [deps |-> <<Dep("f", SemverSrc(Caret(V100)))>>])
        @@ ("e" :> [deps |-> <<Dep("f", SemverSrc(Caret(V110)))>>]))

\* The same f is needed below c and below d, next to another f at the root.
TwiceWorld ==
  World(<<Dep("f", SemverSrc(Tilde(V100))),
          Dep("c", SemverSrc(Caret(V100))),
          Dep("e", SemverSrc(Caret(V100)))>>,
        ("c" :> [deps |-> <<Dep("f", SemverSrc(Caret(V200)))>>])
        @@ ("e" :> [deps |-> <<Dep("f", SemverSrc(Caret(V200)))>>]))

\* A dependency on a branch.
BranchWorld ==
  World(<<Dep("c", BranchSrc(Master)), Dep("f", SemverSrc(Caret(V100)))>>,
        ("c" :> [deps |-> <<Dep("f", BranchSrc(Master))>>]))

\* e is needed by a range that its lightweight tag v2.1.0 satisfies, c by
\* an annotated tag and f by a branch.
LightWorld ==
  World(<<Dep("e", SemverSrc(Caret(V200))), Dep("c", SemverSrc(Caret(V200))),
          Dep("f", BranchSrc(Master))>>, NoDeps)

\* One dependency without dependencies.
RaceWorld == World(<<Dep("c", SemverSrc(Caret(V100)))>>, NoDeps)

\* c declares f by a bare version while f is a dependency of the root too.
BareWorld ==
  World(<<Dep("f", SemverSrc(Caret(V100))),
          Dep("c", SemverSrc(Caret(V100)))>>,
        ("c" :> [deps |-> <<Dep("f", Caret(V100))>>]))

\* The root declares f by a bare version.
BareRootWorld ==
  World(<<Dep("c", SemverSrc(Caret(V100))), Dep("f", Caret(V100))>>, NoDeps)

\* A dependency on a commit.
ShaWorld ==
  World(<<Dep("f", SemverSrc(Caret(V100))), Dep("c", BranchSrc(Sha))>>,
        NoDeps)

\* A devDependency f of the root that is not compatible with the f that c
\* depends on.
DevWorld ==
  [World(<<Dep("c", SemverSrc(Caret(V100)))>>,
         ("c" :> [deps |-> <<Dep("f", SemverSrc(Caret(V200)))>>]))
     EXCEPT !.root.devDeps = <<Dep("f", SemverSrc(Tilde(V100)))>>]

\* A name in dependencies and in devDependencies.
DupWorld ==
  [World(<<Dep("c", SemverSrc(Caret(V100))),
           Dep("d", SemverSrc(Caret(V100)))>>, NoDeps)
     EXCEPT !.root.devDeps = <<Dep("d", SemverSrc(Caret(V100)))>>]

\* c and f depend on each other with versions of c that are not
\* compatible: the root needs c ^1.0.0 and f needs c ^2.0.0.
IncompatibleCycleWorld ==
  World(<<Dep("c", SemverSrc(Caret(V100)))>>,
        ("c" :> [deps |-> <<Dep("f", SemverSrc(Caret(V200)))>>])
        @@ ("f" :> [deps |-> <<Dep("c", SemverSrc(Caret(V200)))>>]))

Worlds ==
  GenWorlds \cup {CycleWorld, UnflatWorld, TwiceWorld, BranchWorld, RaceWorld,
                  BareWorld, BareRootWorld, ShaWorld, DevWorld, DupWorld,
                  LightWorld}

\* No function call in progress.
NoCall == [fn |-> "", args |-> <<>>, ret |-> <<>>]

InitWith(w, active) ==
  /\ world = w
  /\ rootInfo = [p \in Procs |-> w.root]
  /\ call = NoCall
  /\ cache = Empty
  /\ unverified = Empty
  /\ fs = [t \in Procs \cup {GlobalLib} |-> Empty]
  /\ status = [p \in Procs |-> IF p \in active THEN "idle" ELSE "off"]
  /\ stack = [p \in Procs |-> <<>>]
  /\ pc = [p \in Procs |-> "idle"]
  /\ cur = [p \in Procs |-> CurNone]
  /\ runs = [p \in Procs |-> 0]
  /\ faults = 0
  /\ hist = [p \in Procs |-> HistNone]

\* One installer process.
Init == \E w \in Worlds : InitWith(w, {"p1"})

\* Two installer processes (two projects) sharing one <home>.
InitRace == InitWith(RaceWorld, Procs)

Next ==
  \E p \in Procs :
    \/ StartInstall(p)
    \/ ModuleBegin(p)
    \/ FetchCheck(p)
    \/ CloneStart(p)
    \/ CloneFinish(p)
    \/ CloneFail(p)
    \/ Verify(p)
    \/ Rename(p)
    \/ CopyInject(p)
    \/ Descend(p)
    \/ Return(p)
    \/ Finish(p)
    \/ Uninstall(p)

Spec == Init /\ [][Next]_vars

SpecRace == InitRace /\ [][Next]_vars

\* The steps of a running install(): every await of it is for a
\* subprocess or a file operation that ends, and the event loop then runs
\* the continuation.
Step(p) ==
  \/ ModuleBegin(p)
  \/ FetchCheck(p)
  \/ CloneStart(p)
  \/ CloneFinish(p)
  \/ CloneFail(p)
  \/ Verify(p)
  \/ Rename(p)
  \/ CopyInject(p)
  \/ Descend(p)
  \/ Return(p)
  \/ Finish(p)

\* Packages that depend on each other.
LiveWorlds == {CycleWorld, IncompatibleCycleWorld, UnflatWorld, TwiceWorld}

InitLive == \E w \in LiveWorlds : InitWith(w, {"p1"})

SpecLive ==
  InitLive /\ [][Next]_vars /\ \A p \in Procs : WF_vars(Step(p))

\* A root without dependencies and one with the dependency d; c needs
\* f ^1.0.0 and d needs f ^2.0.0.
SourceWorlds ==
  {World(r, ("c" :> [deps |-> <<Dep("f", SemverSrc(Caret(V100)))>>])
            @@ ("d" :> [deps |-> <<Dep("f", SemverSrc(Caret(V200)))>>])) :
     r \in {<<>>, <<Dep("d", SemverSrc(Caret(V100)))>>}}

InitSrc == \E w \in SourceWorlds : InitWith(w, {"p1"})

\* install with sources, in the project and globally, and uninstall.
NextSrc ==
  \E p \in Procs :
    \/ InstallSources(p)
    \/ Step(p)
    \/ Uninstall(p)

SpecSrc == InitSrc /\ [][NextSrc]_vars

(***************************************************************************)
(* Calls of the functions of the library on their own: matchTag,           *)
(* resolveRemote and determinePath applied to generated arguments.         *)
(***************************************************************************)
MaxTags == 3

V190 == <<1, 9, 0>>
V1100 == <<1, 10, 0>>

\* The tags "vx" and "latest".
TagVx == <<ChV, 120>>
TagLatest == <<108, 97, 116, 101, 115, 116>>

TagPool ==
  {TagName(v) : v \in {V100, V110, V190, V1100, V200}} \cup {TagVx, TagLatest}

Ranges == {<<s>> : s \in DOMAIN RangeTable}

MatchTagCalls ==
  {[fn |-> "matchTag", args |-> [tags |-> T, needed |-> <<r>>], ret |-> <<>>] :
     T \in {X \in SUBSET TagPool : Cardinality(X) <= MaxTags}, r \in Ranges}

\* Remote templates: a local root with an absolute and one with a relative
\* path, and two URL prefixes.
RemotesTable ==
  (<<"local">> :> <<"git+file://", "/", "data">>)
  @@ (<<"rel">> :> <<"git+file://", "data">>)
  @@ (<<"github">> :> <<"https://", "github.com">>)
  @@ (<<"onion">> :> <<"ssh://", "git@host", ":", "22">>)

Fragments ==
  {<<"semver", ":", "^1.0.0">>, <<"semver", ":", "~1.0.0">>, <<"v1.1.7">>,
   Sha}

\* A source string built from its parts; frag is null (no "#") or the text
\* behind "#".
AliasSrc(alias, repo, frag) ==
  alias \o <<":">> \o repo \o (IF frag = <<>> THEN <<>> ELSE <<"#">> \o frag[1])
UrlSrc(prefix, rest, frag) ==
  prefix \o rest \o (IF frag = <<>> THEN <<>> ELSE <<"#">> \o frag[1])

Forms ==
  {[kind |-> "alias", head |-> a, rest |-> r, frag |-> f] :
     a \in DOMAIN RemotesTable \cup {<<"nope">>},
     r \in {<<>>, <<"bcoin-org/bdb">>},
     f \in {<<>>, << <<>> >>} \cup {<<x>> : x \in Fragments}}
  \cup
  {[kind |-> "url", head |-> h, rest |-> <<"github.com/bcoin-org/bcfg.git">>,
    frag |-> f] :
     h \in {<<"git+", "https://">>, <<"git+", "ssh://">>,
            <<"git+", "file://">>, <<"git://">>},
     f \in {<<>>, << <<>> >>} \cup {<<x>> : x \in Fragments}}
  \cup
  {[kind |-> "bare", head |-> v, rest |-> <<>>, frag |-> <<>>] : v \in Ranges}

SrcOf(form) ==
  IF form.kind = "alias" THEN AliasSrc(form.head, form.rest, form.frag)
  ELSE IF form.kind = "url" THEN UrlSrc(form.head, form.rest, form.frag)
  ELSE form.head

ResolveCalls ==
  {[fn |-> "resolveRemote",
    args |-> [remotes |-> t, basedir |-> b, name |-> "bdb", src |-> SrcOf(f),
              global |-> g, form |-> f],
    ret |-> <<>>] :
     t \in {<<>>, <<RemotesTable>>}, b \in {<<>>, BaseDir}, g \in BOOLEAN,
     f \in Forms}

\* Trees for determinePath: the slot of f in a directory is absent, holds
\* 1.1.0 or holds 2.0.0.
SlotTrees(dir) ==
  {Empty} \cup
  {(dir \o <<"f">>) :>
     [version |-> v, commit |-> CommitOid("f", TagName(v))] :
     v \in {V110, V200}}

PathCalls ==
  {[fn |-> "determinePath",
    args |-> [tree |-> own @@ up, gtree |-> g, pkg |-> k, name |-> "f",
              version |-> q.version, commit |-> q.commit, global |-> gl],
    ret |-> <<>>] :
     own \in SlotTrees(<<"c">>), up \in SlotTrees(<<>>),
     g \in SlotTrees(<<>>),
     k \in {[dir |-> <<"c">>, parent |-> << <<>> >>]},
     q \in {[version |-> <<Caret(V100)>>, commit |-> <<>>],
            [version |-> <<>>,
             commit |-> <<CommitOid("f", TagName(V200))>>]},
     gl \in BOOLEAN}

\* Manifests and dependencies for addToPackage and removeFromPackage: the
\* dependencies of the package.json in any order of the keys.
PackageCalls ==
  {[fn |-> "addToPackage",
    args |-> [info |-> Manifest(old, <<>>), deps |-> new], ret |-> <<>>] :
     old \in DeclSeqs(Decls, 2), new \in DeclSeqs(Decls, 2)}
  \cup
  {[fn |-> "removeFromPackage",
    args |-> [info |-> Manifest(old, <<>>), sources |-> names],
    ret |-> <<>>] :
     old \in DeclSeqs(Decls, 2),
     names \in {<<>>, <<"c">>, <<"f">>, <<"c", "d">>, <<"d", "c">>,
                <<"c", "c">>}}

\* What is at a path: nothing (<<>>), a symbolic link, a file or a
\* directory.
Link(target) == <<[type |-> "link", target |-> target]>>

\* lstat(dst): the stats, or null for ENOENT.
lstat(node) == node

\* readlink(dst): the target of a link; ENOENT without entry, EINVAL for an
\* entry that is not a link.
readlink(node) ==
  IF node = <<>> THEN [code |-> "ENOENT", existing |-> <<>>]
  ELSE IF node[1].type = "link"
    THEN [code |-> "", existing |-> <<node[1].target>>]
  ELSE [code |-> "EINVAL", existing |-> <<>>]

\* symlink(target, dst): EEXIST when there is an entry.
symlink(target, node) ==
  IF node # <<>> THEN [err |-> "EEXIST", node |-> node]
  ELSE [err |-> "", node |-> Link(target)]

\* Mutant: an existing link is accepted whatever its target.
ensureSymlink_AnyTarget(target, node) ==
  LET stats == lstat(node)
      rl == readlink(node)
  IN IF stats # <<>> /\ stats[1].type # "link"
       THEN [err |-> "Existing installation.", node |-> node]
     ELSE IF rl.code \notin {"", "ENOENT"} THEN [err |-> rl.code, node |-> node]
     ELSE IF rl.existing # <<>> THEN [err |-> "", node |-> node]
     ELSE symlink(target, node)

\* ensureSymlink(target, dst) where node is what is at dst: the error thrown
\* ("" for none) and what is at dst afterwards.
ensureSymlink(target, node) ==
  LET stats == lstat(node)
      rl == readlink(node)
  IN IF stats # <<>> /\ stats[1].type # "link"
       THEN [err |-> "Existing installation.", node |-> node]
     ELSE IF rl.code \notin {"", "ENOENT"} THEN [err |-> rl.code, node |-> node]
     ELSE IF rl.existing # <<>> /\ rl.existing[1] # target
       THEN [err |-> "Existing linked installation.", node |-> node]
     ELSE IF rl.existing # <<>> THEN [err |-> "", node |-> node]
     ELSE symlink(target, node)

\* Targets of the links of executables, and what may be at <bin>/<name>.
Targets == {"../c/bin/c", "../f/bin/f"}

Nodes ==
  {<<>>, <<[type |-> "file"]>>, <<[type |-> "dir"]>>}
  \cup {Link(t) : t \in Targets}

SymlinkCalls ==
  {[fn |-> "ensureSymlink", args |-> [target |-> t, node |-> n],
    ret |-> <<>>] : t \in Targets, n \in Nodes}

\* Outputs of git ls-remote --tags for listTags: the tags v1.0.0 and
\* v2.1.0, each one annotated, lightweight or missing.
TagListings ==
  {a \o b :
     a \in {<<>>} \cup {lsRemoteTag("f", TagName(V100), k) : k \in BOOLEAN},
     b \in {<<>>} \cup {lsRemoteTag("f", TagName(V210), k) : k \in BOOLEAN}}
  \ {<<>>}

ListTagsCalls ==
  {[fn |-> "listTags", args |-> [items |-> l], ret |-> <<>>] :
     l \in TagListings}

\* The prerelease tag "v3.0.0-rc".
TagRc == TagName(<<3, 0, 0>>) \o <<ChDash, 114, 99>>

\* discoverRepo on the tags of a remote, with the range of the source or
\* without one.
DiscoverCalls ==
  {[fn |-> "discoverTag", args |-> [tags |-> T, version |-> v], ret |-> <<>>] :
     T \in {X \in SUBSET (TagPool \cup {TagRc}) : Cardinality(X) <= MaxTags},
     v \in {<<>>, <<Caret(V100)>>, <<Caret(V200)>>}}

\* Installed trees for isRequired: d with or without a dependency f, and f
\* next to d or below it; the root package declares nothing or one
\* dependency.
RequiredTrees ==
  {(<<"d">> :> Site([name |-> "d", version |-> V100, remotes |-> <<Remotes>>,
                     deps |-> dd],
                    CommitOid("d", TagName(V100)), <<>>, TRUE))
   @@ (at :> Site([name |-> "f", version |-> v, remotes |-> <<Remotes>>,
                   deps |-> <<>>],
                  CommitOid("f", TagName(v)), <<>>, TRUE)) :
     dd \in DeclSeqs({x \in Decls : x.name = "f"}, 1),
     v \in {V100, V200},
     at \in {<<"f">>, <<"d", "f">>}}

IsRequiredCalls ==
  {[fn |-> "isRequired",
    args |-> [tree |-> t, info |-> Manifest(r, <<>>), name |-> n],
    ret |-> <<>>] :
     t \in RequiredTrees, r \in DeclSeqs(Decls, 1),
     n \in {"d", "f"}}

(***************************************************************************)
(* copyPackage: the files of a cache entry that reach the destination.     *)
(* A source tree maps the path of an entry (below the cache entry) to its  *)
(* type and, for an ignore file, its lines.  A line is its pattern and     *)
(* whether it starts with "!".                                             *)
(***************************************************************************)
ALWAYS_IGNORE ==
  <<".*.swp", "._*", ".DS_Store", ".git", ".hg", ".npmrc", ".lock-wscript",
    ".svn", ".wafpickle-*", "config.gypi", "CVS", "npm-debug.log">>

NEVER_IGNORE ==
  <<"package.json", "README", "README.md", "readme", "readme.md",
    "CHANGELOG", "CHANGELOG.md", "changelog", "changelog.md", "LICENSE">>

IGNORE_FILES == <<".gpkignore", ".yarnignore", ".npmignore", ".gitignore">>

arrayIncludes(list, x) == \E k \in DOMAIN list : list[k] = x

\* The names a pattern with a wildcard matches, among the names of the
\* source trees.
GlobTable ==
  ("*" :> {"package.json", "README.md", "index.js", "util.js", ".git",
           "config.gypi", ".npmignore", ".gitignore", "lib", "node_modules",
           "dep", "other"})
  @@ ("*.md" :> {"README.md"})
  @@ ("*.json" :> {"package.json"})
  @@ ("*.js" :> {"index.js", "util.js"})
  @@ (".*.swp" :> {})
  @@ ("._*" :> {})
  @@ (".wafpickle-*" :> {})

\* glob(pattern, {matchBase: true, root: from, cwd: from, dot: true}): a
\* pattern without a slash matches the entries below from by their base
\* name, "node_modules/" matches the directory from/node_modules.
glob(tree, from, pattern) ==
  IF pattern = "node_modules/"
  THEN {f \in DOMAIN tree : f = from \o <<"node_modules">>
                            /\ tree[f].type = "dir"}
  ELSE {f \in DOMAIN tree :
          /\ Len(f) > Len(from) /\ SubSeq(f, 1, Len(from)) = from
          /\ IF pattern \in DOMAIN GlobTable
             THEN f[Len(f)] \in GlobTable[pattern]
             ELSE f[Len(f)] = pattern}

\* The comment and the blank line of an ignore file.
CommentLine == "# comment"
BlankLine == ""

RECURSIVE FirstIgnoreFile(_, _, _)
FirstIgnoreFile(tree, dir, k) ==
  IF k > Len(IGNORE_FILES) THEN <<>>
  ELSE IF dir \o <<IGNORE_FILES[k]>> \in DOMAIN tree
       THEN tree[dir \o <<IGNORE_FILES[k]>>].lines
       ELSE FirstIgnoreFile(tree, dir, k + 1)

RECURSIVE IgnoreLines(_)
IgnoreLines(data) ==
  IF data = <<>> THEN <<>>
  ELSE LET line == Head(data) IN
       IF \/ (~line.inverse /\ line.pattern = CommentLine)
          \/ (~line.inverse /\ line.pattern = BlankLine)
          \/ (~line.inverse /\ arrayIncludes(NEVER_IGNORE, line.pattern))
          \/ (~line.inverse /\ line.pattern \in {"node_modules/",
                                                "node_modules/dep"})
       THEN IgnoreLines(Tail(data))
       ELSE <<[pattern |-> line.pattern, always |-> FALSE,
               inverse |-> line.inverse]>> \o IgnoreLines(Tail(data))

getIgnorePatterns(tree, dir) ==
  [k \in 1..Len(ALWAYS_IGNORE) |->
     [pattern |-> ALWAYS_IGNORE[k], always |-> TRUE, inverse |-> FALSE]]
  \o [k \in 1..Len(IGNORE_FILES) |->
        [pattern |-> IGNORE_FILES[k], always |-> TRUE, inverse |-> FALSE]]
  \o IgnoreLines(FirstIgnoreFile(tree, dir, 1))

hasBundle(info) ==
  info.bundleDependencies # <<>> \/ info.bundledDependencies # <<>>

RECURSIVE KeepLines(_)
KeepLines(files) ==
  IF files = <<>> THEN <<>>
  ELSE LET line == Head(files) IN
       IF ~line.inverse /\ arrayIncludes(ALWAYS_IGNORE, line.pattern)
       THEN KeepLines(Tail(files))
       ELSE <<[pattern |-> line.pattern, inverse |-> line.inverse]>>
            \o KeepLines(Tail(files))

getKeepPatterns(info) ==
  [k \in 1..Len(NEVER_IGNORE) |->
     [pattern |-> NEVER_IGNORE[k], inverse |-> FALSE]]
  \o KeepLines(info.files[1])
  \o (IF hasBundle(info)
      THEN <<[pattern |-> "node_modules/", inverse |-> FALSE]>>
      ELSE <<>>)

\* isBundleFile: [isModule, isBundle] of a path below the cache entry.
isBundleFile(info, file) ==
  LET bundleDependencies ==
        IF info.bundleDependencies # <<>> THEN info.bundleDependencies[1]
        ELSE IF info.bundledDependencies # <<>>
             THEN info.bundledDependencies[1]
             ELSE <<>>
  IN IF Len(file) >= 2 /\ file[1] = "node_modules"
     THEN <<TRUE, arrayIncludes(bundleDependencies, file[2])>>
     ELSE <<FALSE, FALSE>>

\* The loop of copyPackage over the keep patterns.
keepPass(tree, info, keepPatterns) ==
  LET hit(f, inv, bundle) ==
        \E k \in DOMAIN keepPatterns :
          /\ f \in glob(tree, <<>>, keepPatterns[k].pattern)
          /\ IF isBundleFile(info, f)[1]
             THEN isBundleFile(info, f)[2] = bundle
             ELSE keepPatterns[k].inverse = inv
  IN [keep |-> {f \in DOMAIN tree : hit(f, FALSE, TRUE)},
      ignore |-> {f \in DOMAIN tree : hit(f, TRUE, FALSE)},
      copied |-> {}]

\* The loop of copyPackage over the ignore patterns of the cache entry: a
\* pattern of the ignore file leaves a kept file alone.
RECURSIVE ignorePass(_, _, _, _, _)
ignorePass(tree, st, hasKeepPatterns, patterns, k) ==
  IF k > Len(patterns) THEN st
  ELSE LET files == {f \in glob(tree, <<>>, patterns[k].pattern) :
                       ~(~patterns[k].always /\ hasKeepPatterns
                         /\ f \in st.keep)}
       IN CHOOSE out \in
            {ignorePass(tree, next, hasKeepPatterns, patterns, k + 1) :
               next \in {IF patterns[k].inverse
                         THEN [st EXCEPT !.keep = @ \cup files]
                         ELSE [st EXCEPT !.ignore = @ \cup files]}} : TRUE

\* copyDirectory: reads the ignore patterns of the directory, then copies
\* the entries that are kept and not ignored, directories recursively.
RECURSIVE copyDirectory(_, _, _)
RECURSIVE copyDirents(_, _, _)
copyDirents(tree, st, dirents) ==
  IF dirents = <<>> THEN st
  ELSE IF Head(dirents) \notin st.keep \/ Head(dirents) \in st.ignore
       THEN copyDirents(tree, st, Tail(dirents))
       ELSE CHOOSE out \in
              {copyDirents(tree, next, Tail(dirents)) :
                 next \in
                   {IF tree[Head(dirents)].type = "dir"
                    THEN copyDirectory(
                           tree,
                           [st EXCEPT !.copied = @ \cup {Head(dirents)}],
                           Head(dirents))
                    ELSE [st EXCEPT !.copied = @ \cup {Head(dirents)}]}} :
              TRUE

copyDirectory(tree, st, from) ==
  LET patterns == getIgnorePatterns(tree, from)
      hits(inv) == UNION {glob(tree, from, patterns[k].pattern) :
                            k \in {j \in DOMAIN patterns :
                                     patterns[j].inverse = inv}}
  IN CHOOSE out \in
       {copyDirents(tree, next, readdir(tree, from)) :
          next \in {[st EXCEPT !.keep = @ \cup hits(TRUE),
                               !.ignore = @ \cup hits(FALSE)]}} : TRUE

\* copyPackage(src, dst): the paths copied to the destination.
copyPackage(tree, info) ==
  LET hasKeepPatterns == info.files # <<>>
      keepPatterns == IF hasKeepPatterns THEN getKeepPatterns(info)
                      ELSE <<[pattern |-> "*", inverse |-> FALSE]>>
  IN copyDirectory(
       tree,
       ignorePass(tree, keepPass(tree, info, keepPatterns), hasKeepPatterns,
                  getIgnorePatterns(tree, <<>>), 1),
       <<>>).copied

File == [type |-> "file", lines |-> <<>>]
Dir == [type |-> "dir", lines |-> <<>>]
Line(pattern) == [pattern |-> pattern, inverse |-> FALSE]
Not(pattern) == [pattern |-> pattern, inverse |-> TRUE]

\* A cache entry with a manifest, a readme, sources, a .git directory, a
\* config.gypi, two modules under node_modules and, when it has lines, an
\* ignore file at the top and one in lib.
SourceTree(ignoreName, top, lib) ==
  (<<"package.json">> :> File) @@ (<<"README.md">> :> File)
  @@ (<<"index.js">> :> File) @@ (<<".git">> :> Dir)
  @@ (<<"config.gypi">> :> File)
  @@ (<<"lib">> :> Dir) @@ (<<"lib", "util.js">> :> File)
  @@ (<<"node_modules">> :> Dir)
  @@ (<<"node_modules", "dep">> :> Dir)
  @@ (<<"node_modules", "dep", "index.js">> :> File)
  @@ (<<"node_modules", "other">> :> Dir)
  @@ (<<"node_modules", "other", "index.js">> :> File)
  @@ (IF top = <<>> THEN Empty
      ELSE <<ignoreName>> :> [type |-> "file", lines |-> top])
  @@ (IF lib = <<>> THEN Empty
      ELSE <<"lib", ".npmignore">> :> [type |-> "file", lines |-> lib])

IgnoreFileLines ==
  {<<>>} \cup {<<l>> : l \in {Line(CommentLine), Line(BlankLine),
                              Line("README.md"), Line("package.json"),
                              Line("*.md"), Line("*.json"), Line("index.js"),
                              Line("lib"), Line("node_modules/"),
                              Line("node_modules"), Line("*.js"),
                              Not("index.js"), Not("config.gypi")}}

FilesLists ==
  {<<>>, << <<>> >>}
  \cup {<< <<l>> >> : l \in {Line("index.js"), Line("lib"), Line(".git"),
                            Line("config.gypi"), Line("*.js"),
                            Not("index.js")}}
  \cup {<< <<Line("index.js"), Line("lib"), Line("util.js")>> >>,
        << <<Line("lib"), Line("util.js"), Line("dep"), Line("index.js")>> >>}

BundleLists == {<<>>, << <<>> >>, << <<"dep">> >>}

CopyCalls ==
  {[fn |-> "copyPackage",
    args |-> [tree |-> SourceTree(n, top, lib),
              info |-> [files |-> fl, bundleDependencies |-> b1,
                        bundledDependencies |-> b2]],
    ret |-> <<>>] :
     n \in {".npmignore", ".gitignore"}, top \in IgnoreFileLines,
     lib \in {<<>>, <<Line("*.js")>>, <<Not("util.js")>>},
     fl \in FilesLists, b1 \in BundleLists, b2 \in {<<>>, << <<"dep">> >>}}

CallCopyPackage ==
  /\ call.fn = "copyPackage" /\ call.ret = <<>>
  /\ call' = [call EXCEPT
                !.ret = <<copyPackage(call.args.tree, call.args.info)>>]
  /\ UNCHANGED <<world, rootInfo, cache, unverified, fs, status, stack, pc,
                 cur, runs, faults, hist>>

(***************************************************************************)
(* uninstall(names, {global: true}) on a disk: a disk maps the path of an  *)
(* entry to its type, the target of a link and the bin of a package.json.  *)
(***************************************************************************)
\* The path f is below the directory d.
IsUnder(d, f) == Len(f) > Len(d) /\ SubSeq(f, 1, Len(d)) = d

Entry(type, target, bin) == [type |-> type, target |-> target, bin |-> bin]

\* The path of an entry once the links in the path are followed.
RECURSIVE realpath(_, _)
realpath(disk, path) ==
  IF path = <<>> THEN <<>>
  ELSE CHOOSE out \in
         {IF q \in DOMAIN disk /\ disk[q].type = "link"
          THEN realpath(disk, disk[q].target) ELSE q :
            q \in {realpath(disk, SubSeq(path, 1, Len(path) - 1))
                   \o <<path[Len(path)]>>}} : TRUE

\* The path of an entry once the links above it are followed.
linkpath(disk, path) ==
  realpath(disk, SubSeq(path, 1, Len(path) - 1)) \o <<path[Len(path)]>>

\* Mutant: a link to a directory is taken for the directory.
lstatAt_Follow(disk, dst) ==
  IF realpath(disk, dst) \in DOMAIN disk
  THEN <<disk[realpath(disk, dst)]>> ELSE <<>>

\* lstat(dst): the entry itself, or nothing for ENOENT.
lstatAt(disk, dst) ==
  IF linkpath(disk, dst) \in DOMAIN disk
  THEN <<disk[linkpath(disk, dst)]>> ELSE <<>>

\* unlink(dst), and rmdir(dst) of an empty directory: ENOENT is ignored.
unlinkAt(disk, dst) ==
  [f \in DOMAIN disk \ {linkpath(disk, dst)} |-> disk[f]]

\* unlinkRecursive(dst) on a disk: a directory is emptied and removed,
\* anything else is unlinked.
RECURSIVE unlinkPath(_, _)
RECURSIVE unlinkNames(_, _, _)
unlinkNames(disk, dst, names) ==
  IF names = <<>> THEN disk
  ELSE CHOOSE out \in
         {unlinkNames(next, dst, Tail(names)) :
            next \in {unlinkPath(disk, dst \o <<Head(names)>>)}} : TRUE

unlinkPath(disk, dst) ==
  IF lstatAt(disk, dst) = <<>> THEN disk
  ELSE IF lstatAt(disk, dst)[1].type = "dir"
    THEN CHOOSE out \in
           {IF \E f \in DOMAIN emptied : IsUnder(realpath(emptied, dst), f)
            THEN emptied
            ELSE unlinkAt(emptied, dst) :
              emptied \in
                {unlinkNames(disk, dst,
                   SeqOfSet({f[Len(f)] : f \in
                     {g \in DOMAIN disk :
                        /\ Len(g) = Len(realpath(disk, dst)) + 1
                        /\ IsUnder(realpath(disk, dst), g)}}))}} : TRUE
  ELSE unlinkAt(disk, dst)

GlobalLibDir == <<"lib">>
GlobalBinDir == <<"bin">>

\* Package.fromDirectory(dst).info: the bin of the package.json, if any.
packageAt(disk, dst) ==
  IF realpath(disk, dst \o <<"package.json">>) \in DOMAIN disk
  THEN <<disk[realpath(disk, dst \o <<"package.json">>)].bin>> ELSE <<>>

\* unlinkBin(null, {global: true}): unlink of every name of bin.
RECURSIVE unlinkBin(_, _)
unlinkBin(disk, bin) ==
  IF bin = <<>> THEN disk
  ELSE unlinkBin(unlinkAt(disk, GlobalBinDir \o <<Head(bin)>>), Tail(bin))

\* uninstall(sources, {global: true}) with sources.
RECURSIVE uninstallGlobal(_, _)
uninstallGlobal(disk, sources) ==
  IF sources = <<>> THEN [err |-> "", disk |-> disk]
  ELSE IF packageAt(disk, GlobalLibDir \o <<Head(sources)>>) = <<>>
    THEN [err |-> "Package not found.", disk |-> disk]
  ELSE CHOOSE out \in
         {uninstallGlobal(next, Tail(sources)) :
            next \in
              {unlinkPath(
                 unlinkBin(disk,
                           packageAt(disk,
                                     GlobalLibDir \o <<Head(sources)>>)[1]),
                 GlobalLibDir \o <<Head(sources)>>)}} : TRUE

\* A project directory with a package c that has an executable, and the
\* global directories: lib/c is a link to the project (install -g in the
\* project), a copy of c with a link below it, or absent; lib/f is a copy
\* of f or absent.
Disks ==
  {(<<"proj">> :> Entry("dir", <<>>, <<>>))
   @@ (<<"proj", "package.json">> :> Entry("file", <<>>, <<"c">>))
   @@ (<<"proj", "index.js">> :> Entry("file", <<>>, <<>>))
   @@ (<<"lib">> :> Entry("dir", <<>>, <<>>))
   @@ (<<"bin">> :> Entry("dir", <<>>, <<>>))
   @@ c @@ f @@ b :
     c \in {Empty,
            <<"lib", "c">> :> Entry("link", <<"proj">>, <<>>),
            (<<"lib", "c">> :> Entry("dir", <<>>, <<>>))
            @@ (<<"lib", "c", "package.json">> :> Entry("file", <<>>, <<"c">>))
            @@ (<<"lib", "c", "node_modules">> :> Entry("dir", <<>>, <<>>))
            @@ (<<"lib", "c", "node_modules", "f">>
                  :> Entry("link", <<"proj">>, <<>>))},
     f \in {Empty,
            (<<"lib", "f">> :> Entry("dir", <<>>, <<>>))
            @@ (<<"lib", "f", "package.json">> :> Entry("file", <<>>, <<"f">>))},
     b \in {Empty,
            <<"bin", "c">> :> Entry("link", <<"lib", "c", "bin", "c">>, <<>>),
            (<<"bin", "c">> :> Entry("link", <<"lib", "c", "bin", "c">>, <<>>))
            @@ (<<"bin", "f">>
                  :> Entry("link", <<"lib", "f", "bin", "f">>, <<>>))}}

UninstallCalls ==
  {[fn |-> "uninstall", args |-> [disk |-> d, sources |-> s], ret |-> <<>>] :
     d \in Disks, s \in {<<"c">>, <<"f">>, <<"c", "f">>, <<"f", "c">>}}

CallUninstallGlobal ==
  /\ call.fn = "uninstall" /\ call.ret = <<>>
  /\ call' = [call EXCEPT
                !.ret = <<uninstallGlobal(call.args.disk,
                                          call.args.sources)>>]
  /\ UNCHANGED <<world, rootInfo, cache, unverified, fs, status, stack, pc,
                 cur, runs, faults, hist>>

Calls ==
  MatchTagCalls \cup ResolveCalls \cup PathCalls \cup ListTagsCalls
  \cup SymlinkCalls \cup PackageCalls \cup DiscoverCalls
  \cup IsRequiredCalls \cup CopyCalls \cup UninstallCalls

CallIsRequired ==
  /\ call.fn = "isRequired" /\ call.ret = <<>>
  /\ <<call.args.name>> \in DOMAIN call.args.tree
  /\ call' = [call EXCEPT
                !.ret = <<isRequired(call.args.tree, call.args.info,
                                     call.args.name, FALSE)>>]
  /\ UNCHANGED <<world, rootInfo, cache, unverified, fs, status, stack, pc,
                 cur, runs, faults, hist>>

CallDiscoverTag ==
  /\ call.fn = "discoverTag" /\ call.ret = <<>>
  /\ call' = [call EXCEPT
                !.ret = <<discoverTag(call.args.tags, call.args.version)>>]
  /\ UNCHANGED <<world, rootInfo, cache, unverified, fs, status, stack, pc,
                 cur, runs, faults, hist>>

CallMatchTag ==
  /\ call.fn = "matchTag" /\ call.ret = <<>>
  /\ call' = [call EXCEPT
                !.ret = <<matchTag(call.args.tags, call.args.needed)>>]
  /\ UNCHANGED <<world, rootInfo, cache, unverified, fs, status, stack, pc,
                 cur, runs, faults, hist>>

CallResolveRemote ==
  /\ call.fn = "resolveRemote" /\ call.ret = <<>>
  /\ call' = [call EXCEPT
                !.ret = <<resolveRemote(call.args.remotes, call.args.basedir,
                                        call.args.name, call.args.src,
                                        call.args.global)>>]
  /\ UNCHANGED <<world, rootInfo, cache, unverified, fs, status, stack, pc,
                 cur, runs, faults, hist>>

CallDeterminePath ==
  /\ call.fn = "determinePath" /\ call.ret = <<>>
  /\ call' = [call EXCEPT
                !.ret = <<determinePath(call.args.tree, call.args.pkg,
                            call.args.name, call.args.version,
                            call.args.commit,
                            IF call.args.global THEN <<call.args.gtree>>
                            ELSE <<>>)>>]
  /\ UNCHANGED <<world, rootInfo, cache, unverified, fs, status, stack, pc,
                 cur, runs, faults, hist>>

CallListTags ==
  /\ call.fn = "listTags" /\ call.ret = <<>>
  /\ call' = [call EXCEPT !.ret = <<parseTags(call.args.items, Empty)>>]
  /\ UNCHANGED <<world, rootInfo, cache, unverified, fs, status, stack, pc,
                 cur, runs, faults, hist>>

CallEnsureSymlink ==
  /\ call.fn = "ensureSymlink" /\ call.ret = <<>>
  /\ call' = [call EXCEPT
                !.ret = <<ensureSymlink(call.args.target, call.args.node)>>]
  /\ UNCHANGED <<world, rootInfo, cache, unverified, fs, status, stack, pc,
                 cur, runs, faults, hist>>

CallAddToPackage ==
  /\ call.fn = "addToPackage" /\ call.ret = <<>>
  /\ call' = [call EXCEPT
                !.ret = <<addToPackage(call.args.info, call.args.deps)>>]
  /\ UNCHANGED <<world, rootInfo, cache, unverified, fs, status, stack, pc,
                 cur, runs, faults, hist>>

CallRemoveFromPackage ==
  /\ call.fn = "removeFromPackage" /\ call.ret = <<>>
  /\ call' = [call EXCEPT
                !.ret = <<removeFromPackage(call.args.info,
                                            call.args.sources)>>]
  /\ UNCHANGED <<world, rootInfo, cache, unverified, fs, status, stack, pc,
                 cur, runs, faults, hist>>

InitFn ==
  /\ world = RaceWorld
  /\ rootInfo = [p \in Procs |-> RaceWorld.root]
  /\ call \in Calls
  /\ cache = Empty
  /\ unverified = Empty
  /\ fs = [t \in Procs \cup {GlobalLib} |-> Empty]
  /\ status = [p \in Procs |-> "off"]
  /\ stack = [p \in Procs |-> <<>>]
  /\ pc = [p \in Procs |-> "idle"]
  /\ cur = [p \in Procs |-> CurNone]
  /\ runs = [p \in Procs |-> 0]
  /\ faults = 0
  /\ hist = [p \in Procs |-> HistNone]

NextFn ==
  \/ CallMatchTag
  \/ CallResolveRemote
  \/ CallDeterminePath
  \/ CallListTags
  \/ CallEnsureSymlink
  \/ CallAddToPackage
  \/ CallRemoveFromPackage
  \/ CallDiscoverTag
  \/ CallIsRequired
  \/ CallCopyPackage
  \/ CallUninstallGlobal

SpecFn == InitFn /\ [][NextFn]_vars

TypeOK ==
  /\ \A p \in Procs :
       /\ status[p] \in {"off", "idle", "running", "done", "error", "removed"}
       /\ pc[p] \in {"idle", "module", "fetch", "clone", "cloning", "verify",
                     "rename", "copy"}
       /\ runs[p] \in 0..MaxRuns
  /\ faults \in 0..MaxFaults

(***************************************************************************)
(* Properties.                                                             *)
(***************************************************************************)
Fetching == {"fetch", "clone", "cloning", "verify", "rename"}

\* C1: every entry of the cache was renamed from <oid>-unverified after a
\* verify-tag / verify-commit run in that directory had succeeded, also
\* when earlier calls failed part-way.
C1_VerifiedBeforePopulated ==
  \A o \in DOMAIN cache : cache[o].verified

C1_Witness ==
  /\ faults > 0
  /\ \E o \in DOMAIN cache : cache[o].verified

\* C2: when the clone or the verification of fetchVerified fails, install
\* ends with the error, <dst>-unverified is not renamed, <dst> does not
\* exist and the module is at no install site.
C2_FetchFailureFatal ==
  \A p \in Procs :
    hist[p].fetchErr # <<>> =>
      /\ status[p] = "error"
      /\ stack[p] = <<>> /\ pc[p] = "idle"
      /\ hist[p].fetchErr[1].oid \notin DOMAIN cache
      /\ hist[p].fetchErr[1].dst \notin DOMAIN fs[p]
      /\ \A d \in DOMAIN fs[p] \ DOMAIN hist[p].fs0 :
           fs[p][d].commit # hist[p].fetchErr[1].head

C2_Witness ==
  \E p \in Procs :
    /\ hist[p].fetchErr # <<>>
    /\ hist[p].fetchErr[1].oid \in DOMAIN unverified

\* C3: a fetchVerified call that finds <dst>-unverified left by a failed
\* call clones again before it verifies.
C3_StaleRecloned ==
  \A p \in Procs :
    (pc[p] \in {"verify", "rename"} /\ cur[p].stale) => cur[p].cloned

\* C4: once <dst> exists, a fetch of the same <dst> is a cache hit:
\* no clone, no verification, no error, <dst> unchanged.
C4_CacheIdempotent ==
  [][\A o \in DOMAIN cache :
       /\ o \in DOMAIN cache' /\ cache'[o] = cache[o]
       /\ o \notin DOMAIN unverified'
       /\ \A p \in Procs :
            /\ cur'[p].oid = <<o>> => pc'[p] = "copy"
            /\ hist'[p].fetchErr # <<>> => hist'[p].fetchErr[1].oid # o
     ]_vars

C4_Witness ==
  \E p \in Procs : pc[p] = "copy" /\ cur[p].hit

\* C5: every cache entry holds a worktree completely produced by a clone
\* and verified; an incomplete <dst>-unverified is never renamed.
C5_EntriesComplete ==
  \A o \in DOMAIN cache : cache[o].complete /\ cache[o].verified

\* C6: two processes racing for one OID never verify or rename a directory
\* the other one is cloning into, and none fails because of the race.
C6_RaceSafe ==
  /\ \A p, q \in Procs :
       (p # q /\ pc[p] \in {"verify", "rename"} /\ pc[q] = "cloning")
         => cur[p].oid # cur[q].oid
  /\ faults = 0 => \A p \in Procs : status[p] # "error"

\* The ancestor chain of a package, current frame first, root last.
Chain(pkg) == <<pkg.dir>> \o pkg.parent

IndexOf(seq, x) == CHOOSE i \in DOMAIN seq : seq[i] = x

Slot(tree, dir, d) == checkExisting(tree, dir \o <<d.name>>, d.commit,
                                    d.version)
Incompatible(tree, dir, d) == Slot(tree, dir, d) = <<TRUE, FALSE>>
Compatible(tree, dir, d) == Slot(tree, dir, d) = <<TRUE, TRUE>>
Absent(tree, dir, d) == Slot(tree, dir, d) = <<FALSE, FALSE>>

\* C7: hoisting maximality.  For every install site, every ancestor on its
\* chain that is shallower than the site's container holds an incompatible
\* installation of the same name.
C7_HoistingMaximal ==
  \A p \in Procs : \A s \in hist[p].placed :
    LET ch == Chain(s.pkg)
        k == IndexOf(ch, s.dstDir)
    IN \A i \in (k + 1)..Len(ch) : Incompatible(fs[p], ch[i], s)

C7_Witness ==
  \E p \in Procs : \E s \in hist[p].placed :
    /\ status[p] = "done"
    /\ IndexOf(Chain(s.pkg), s.dstDir) < Len(Chain(s.pkg))
    /\ s.dstDir # <<>>

\* The planner searching the chain in the given order: no action at the
\* first compatible slot, incompatible slots skipped, the first absent
\* slot selected.
FollowsOrder(tree, d, order) ==
  IF d.dst = <<>>
    THEN \/ Compatible(tree, d.pkg.dir, d)
         \/ \E k \in DOMAIN order :
              /\ Compatible(tree, order[k], d)
              /\ \A i \in 1..(k - 1) : Incompatible(tree, order[i], d)
    ELSE \E k \in DOMAIN order :
           /\ ~Compatible(tree, d.pkg.dir, d)
           /\ d.dst[1] = order[k] \o <<d.name>>
           /\ Absent(tree, order[k], d)
           /\ \A i \in 1..(k - 1) : Incompatible(tree, order[i], d)

Reverse(seq) == [i \in DOMAIN seq |-> seq[Len(seq) + 1 - i]]

\* C8 as stated: the chain is examined current frame first, root last.
C8_CurrentFirst ==
  \A p \in Procs :
    hist[p].decision # <<>> =>
      FollowsOrder(fs[p], hist[p].decision[1],
                   Chain(hist[p].decision[1].pkg))

\* C8 amended: after the current frame's own slot was found not to be
\* compatible, the chain is examined top-level root first, current frame
\* last.
C8_RootFirst ==
  \A p \in Procs :
    hist[p].decision # <<>> =>
      FollowsOrder(fs[p], hist[p].decision[1],
                   Reverse(Chain(hist[p].decision[1].pkg)))

C8_Witness ==
  \E p \in Procs :
    /\ hist[p].decision # <<>>
    /\ hist[p].decision[1].dst # <<>>
    /\ Len(hist[p].decision[1].dst[1]) = 2
    /\ Len(Chain(hist[p].decision[1].pkg)) = 3

SitesOf(tree, name) == {d \in DOMAIN tree : d[Len(d)] = name}

C10_SecondRunNoOp ==
  \A p \in Procs :
    (hist[p].op = "install" /\ hist[p].afterOk /\ hist[p].same) =>
      /\ hist[p].clones = 0 /\ hist[p].copies = 0 /\ hist[p].writes = 0
      /\ fs[p] = hist[p].fs0

C10_Witness ==
  \E p \in Procs :
    /\ hist[p].op = "install" /\ hist[p].same
    /\ hist[p].afterOk /\ status[p] = "done"
    /\ Cardinality(DOMAIN fs[p]) > 1

\* What a package with manifest m asks of its dependency d.
Request(m, d) ==
  LET r == resolveRemote(m.remotes, BaseDir, d.name, d.src, FALSE)
      branches == IF r.git = <<>> THEN Empty
                  ELSE listBranches(r.git[1]).branches
  IN [name |-> d.name, version |-> r.version,
      commit |-> IF r.branch # <<>> /\ r.branch[1] \in DOMAIN branches
                   THEN <<branches[r.branch[1]]>> ELSE <<>>]

\* The directories from which the package at dir loads modules: its own
\* and those above it.
Above(dir) == {SubSeq(dir, 1, k) : k \in 0..Len(dir)}

\* The install site that the package at dir loads for a name, if any.
Loaded(tree, dir, name) ==
  {a \o <<name>> : a \in {b \in Above(dir) :
     /\ b \o <<name>> \in DOMAIN tree
     /\ \A c \in Above(dir) :
          c \o <<name>> \in DOMAIN tree => Len(c) <= Len(b)}}

ManifestAt(tree, rinfo, dir) == IF dir = <<>> THEN rinfo ELSE tree[dir]

\* Every dependency declared by the packages of dirs is installed at or
\* above the package with a compatible version or commit.
DepsInstalled(tree, rinfo, dirs) ==
  \A dir \in dirs :
    LET m == ManifestAt(tree, rinfo, dir)
    IN \A i \in DOMAIN m.deps :
         \E a \in Above(dir) : Compatible(tree, a, Request(m, m.deps[i]))

\* uninstall ended without error directly after a successful install that
\* had left every declared dependency installed.
Uninstalled(p) ==
  /\ hist[p].op = "uninstall" /\ status[p] = "removed"
  /\ hist[p].afterOk
  /\ DepsInstalled(hist[p].fs0, rootInfo[p], DOMAIN hist[p].fs0 \cup {<<>>})

\* C11: after uninstall on a fully installed tree no retained package has
\* lost a dependency it declares, and no removed install site was the one
\* that a retained package loaded for a dependency it declares.
C11_UninstallSound ==
  \A p \in Procs :
    Uninstalled(p) =>
      /\ DepsInstalled(fs[p], rootInfo[p], DOMAIN fs[p] \cup {<<>>})
      /\ \A s \in DOMAIN hist[p].fs0 \ DOMAIN fs[p] :
           \A dir \in DOMAIN fs[p] \cup {<<>>} :
             LET m == ManifestAt(fs[p], rootInfo[p], dir)
             IN \A i \in DOMAIN m.deps :
                  s \notin Loaded(hist[p].fs0, dir, m.deps[i].name)

\* C12: the _commit of every install site created by install is the HEAD
\* commit of the cache entry whose files were copied to the site.
C12_CommitIsHead ==
  \A p \in Procs : \A s \in hist[p].placed :
    /\ s.dst \in DOMAIN fs[p]
    /\ s.oid \in DOMAIN cache
    /\ fs[p][s.dst].commit = cache[s.oid].commit

C12_Witness ==
  \E p \in Procs : \E s, t \in hist[p].placed :
    /\ status[p] = "done"
    /\ s.commit = <<>> /\ t.commit # <<>>
    /\ fs[p][s.dst].commit = cache[s.oid].commit
    /\ fs[p][t.dst].commit = cache[t.oid].commit

\* The version a tag names: the tag is "v" followed by the version.
VersionOfTag(t) ==
  LET vs == {v \in {V100, V110, V190, V1100, V200} : TagName(v) = t}
  IN IF vs = {} THEN <<>> ELSE <<CHOOSE v \in vs : TRUE>>

Satisfying(T, r) ==
  {t \in T : VersionOfTag(t) # <<>> /\ satisfies(VersionOfTag(t)[1], r)}

\* C13: matchTag(T, r) returns a tag of T that satisfies r and that no
\* satisfying tag of T exceeds in semver precedence, and null exactly when
\* no tag of T satisfies r.
C13_HighestSatisfying ==
  (call.fn = "matchTag" /\ call.ret # <<>>) =>
    LET ok == Satisfying(call.args.tags, call.args.needed)
        t == call.ret[1]
    IN /\ t = <<>> <=> ok = {}
       /\ t # <<>> =>
            /\ t[1] \in ok
            /\ \A u \in ok :
                 ~VerLess(VersionOfTag(t[1])[1], VersionOfTag(u)[1])

\* A resolveRemote call on an alias source <alias>:<repo>#<fragment> with a
\* fragment that is not empty, a remotes table that declares the alias,
\* alias expansion enabled and a base directory for a relative template.
AliasCall ==
  /\ call.fn = "resolveRemote" /\ call.ret # <<>>
  /\ call.args.form.kind = "alias"
  /\ call.args.form.frag # <<>> /\ call.args.form.frag[1] # <<>>
  /\ ~call.args.global
  /\ call.args.remotes # <<>>
  /\ call.args.form.head \in DOMAIN call.args.remotes[1]
  /\ LET t == call.args.remotes[1][call.args.form.head]
     IN (t[1] = "git+file://" /\ t[2] # "/") => call.args.basedir # <<>>

\* The git url the claim gives for an alias source.
ExpectedGit(a) ==
  LET t == a.remotes[1][a.form.head]
      repo == IF a.form.rest = <<>> THEN <<a.name>> ELSE a.form.rest
      path == Tail(t)
      dir == IF path[1] = "/" THEN path ELSE a.basedir[1] \o <<"/">> \o path
  IN IF t[1] = "git+file://"
       THEN <<"file://">> \o dir \o <<"/">> \o repo \o <<"/", ".git">>
       ELSE t \o <<"/">> \o repo \o <<".git">>

\* C14: for an alias source resolveRemote returns <template>/<repo>.git for
\* a URL template and file://<dir>/<repo>/.git for a git+file:// template,
\* the dependency name standing in for an empty repo, and exactly one of
\* version and branch: the version when the fragment starts with "semver:".
C14_AliasResolved ==
  AliasCall =>
    LET r == call.ret[1]
        frag == call.args.form.frag[1]
        isSemver == Len(frag) >= 2 /\ frag[1] = "semver" /\ frag[2] = ":"
    IN /\ r.err = ""
       /\ r.git = <<ExpectedGit(call.args)>>
       /\ (r.version # <<>>) # (r.branch # <<>>)
       /\ (r.version # <<>>) <=> isSemver
       /\ isSemver => r.version = <<SubSeq(frag, 3, Len(frag))>>
       /\ ~isSemver => r.branch = <<frag>>

C14_Witness ==
  /\ AliasCall
  /\ call.args.form.rest = <<>>
  /\ call.args.form.head = <<"rel">>
  /\ call.ret[1].version # <<>>

\* A resolveRemote call that returned: the source was accepted.
Accepted ==
  /\ call.fn = "resolveRemote" /\ call.ret # <<>>
  /\ call.ret[1].err = ""

\* A bare version-only source: no ":", or nothing behind the first ":".
BareForm(f) ==
  \/ f.kind = "bare"
  \/ f.kind = "alias" /\ f.rest = <<>> /\ f.frag = <<>>

\* C15 as stated: for every accepted source exactly one of version and
\* branch is set, and git is null exactly for a bare version.
C15_ExactlyOne ==
  Accepted =>
    /\ (call.ret[1].version # <<>>) # (call.ret[1].branch # <<>>)
    /\ call.ret[1].git = <<>> <=> BareForm(call.args.form)

\* C15 amended: version and branch are never both set; exactly one is set
\* when the source is a bare version or has a fragment that is not empty,
\* none when the source has no fragment or an empty one; git is null
\* exactly for a bare version.
C15_AtMostOne ==
  Accepted =>
    LET r == call.ret[1]
        f == call.args.form
        fragment == f.frag # <<>> /\ f.frag[1] # <<>>
    IN /\ ~(r.version # <<>> /\ r.branch # <<>>)
       /\ (r.version # <<>> \/ r.branch # <<>>)
            <=> (BareForm(f) \/ fragment)
       /\ r.git = <<>> <=> BareForm(f)

C15_Witness ==
  /\ Accepted
  /\ call.args.form.kind = "url"
  /\ call.args.form.frag = <<>>
  /\ call.ret[1].version = <<>> /\ call.ret[1].branch = <<>>
  /\ call.ret[1].git # <<>>

\* C16: an install that reaches a dependency whose source is a bare
\* version (resolved git is null) fails with the "Unknown remote" error,
\* whatever is installed on the chain.
C16_BareRejected ==
  \A p \in Procs :
    hist[p].bare => (status[p] = "error" /\ hist[p].err = "Unknown remote.")

\* C17: for a source whose fragment is a commit SHA, install does not list
\* the branches and does not fail with the unknown branch error.
C17_ShaIsCommit ==
  \A p \in Procs :
    /\ Sha \notin hist[p].listed
    /\ world = ShaWorld => hist[p].err # "Unknown branch."

\* A name is in dependencies and in devDependencies of the manifest.
Duplicate(m) ==
  \E i \in DOMAIN m.deps : \E j \in DOMAIN m.devDeps :
    m.deps[i].name = m.devDeps[j].name

\* C18: install without production of a manifest with a name in both
\* dependencies and devDependencies fails with the duplicate dependency
\* error and has installed no module.
C18_DuplicateFails ==
  \A p \in Procs :
    (/\ hist[p].op = "install" /\ ~hist[p].production
     /\ Duplicate(rootInfo[p])) =>
      /\ status[p] = "error" /\ hist[p].err = "Duplicate dependency."
      /\ fs[p] = hist[p].fs0
      /\ hist[p].clones = 0 /\ hist[p].copies = 0

C18_Witness ==
  \E p \in Procs :
    /\ hist[p].op = "install" /\ ~hist[p].production
    /\ Duplicate(rootInfo[p])
    /\ hist[p].err = "Duplicate dependency."
    /\ DOMAIN fs[p] # {}

\* Every member of the chain holds an incompatible installation.
AllIncompatible(tree, d) ==
  \A i \in DOMAIN Chain(d.pkg) : Incompatible(tree, Chain(d.pkg)[i], d)

GlobalSlot(a) ==
  checkExisting(a.gtree, <<a.name>>, a.commit, a.version)

\* C20: in global mode determinePath decides by the global library root
\* alone: its slot absent gives that path, compatible gives "no action",
\* incompatible is an error, whatever the node_modules of the calling
\* package hold.
C20_GlobalRootOnly ==
  (call.fn = "determinePath" /\ call.ret # <<>> /\ call.args.global) =>
    LET r == call.ret[1]
        slot == GlobalSlot(call.args)
    IN /\ slot = <<FALSE, FALSE>> =>
            (~r.err /\ r.dst = << <<call.args.name>> >>)
       /\ slot = <<TRUE, TRUE>> => (~r.err /\ r.dst = <<>>)
       /\ slot = <<TRUE, FALSE>> => r.err

\* C30: listTags returns one entry per tag name of the lines; annotated is
\* the object id of the tag object (the line without "^{}" of an annotated
\* tag), commit is the object id of the commit (the line with "^{}", or the
\* only line of a lightweight tag), and a lightweight tag has no annotated.
C30_TagObjectAndCommit ==
  (call.fn = "listTags" /\ call.ret # <<>>) =>
    LET items == call.args.items
        tags == call.ret[1]
    IN /\ DOMAIN tags = {remove(items[i].tag, Peel) : i \in DOMAIN items}
       /\ \A i \in DOMAIN items :
            LET e == tags[remove(items[i].tag, Peel)]
            IN IF items[i].hash.kind = "tag"
                 THEN e.annotated = <<items[i].hash>>
                 ELSE /\ e.commit = <<items[i].hash>>
                      /\ (~includes(items[i].tag, Peel) => e.annotated = <<>>)

\* C21: ensureSymlink(target, dst) creates the link when nothing is at dst;
\* leaves dst as it is without error when dst is a link to target, so that
\* linking a second time changes nothing; and throws and leaves dst as it
\* is when dst is a link to another target or is not a link.
C21_EnsureSymlink ==
  (call.fn = "ensureSymlink" /\ call.ret # <<>>) =>
    LET target == call.args.target
        node == call.args.node
        r == call.ret[1]
        again == ensureSymlink(target, r.node)
    IN /\ node = <<>> => (r.err = "" /\ r.node = Link(target))
       /\ node = Link(target) => (r.err = "" /\ r.node = node)
       /\ (node # <<>> /\ node # Link(target)) =>
            (r.err # "" /\ r.node = node)
       /\ r.err = "" => (again.err = "" /\ again.node = r.node)

C21_Witness ==
  /\ call.fn = "ensureSymlink" /\ call.ret # <<>>
  /\ call.args.node # <<>>
  /\ call.args.node[1].type = "link"
  /\ call.args.node[1].target # call.args.target
  /\ call.ret[1].err # ""

\* The names of the dependencies are in the order of the strings.
SortedByName(deps) ==
  \A i, j \in DOMAIN deps :
    i < j => NameRank(deps[i].name) < NameRank(deps[j].name)

\* C22: the dependencies of the package.json that addToPackage or
\* removeFromPackage has written are in the order of their names, whatever
\* the dependencies were before and whatever is added or removed.
C22_WrittenSorted ==
  /\ (call.fn = "addToPackage" /\ call.ret # <<>>
        /\ call.ret[1].written) => SortedByName(call.ret[1].info.deps)
  /\ (call.fn = "removeFromPackage" /\ call.ret # <<>>
        /\ call.ret[1].err = "") => SortedByName(call.ret[1].info.deps)

\* C23: installDependencies calls installModule for the dependencies of a
\* package in the order of their names, whatever the order of the keys in
\* its package.json.
C23_InstalledInNameOrder ==
  \A p \in Procs : \A k \in DOMAIN stack[p] :
    LET fr == stack[p][k]
    IN \A i, j \in DOMAIN fr.deps :
         (i < j /\ j < fr.i) =>
           NameRank(fr.deps[i].name) < NameRank(fr.deps[j].name)

\* C24: every install() that has started ends, with a result or with an
\* error, also when the packages depend on each other in a cycle; and
\* when it has returned no installDependencies is left to run: every
\* module it installed has had its dependencies installed.
C24_Terminates ==
  /\ \A p \in Procs :
       (status[p] = "running") ~> (status[p] \in {"done", "error"})
  /\ [](\A p \in Procs :
          (status[p] = "done" /\ hist[p].op = "install") =>
            /\ stack[p] = <<>>
            /\ hist[p].descents = hist[p].copies)

C24_Witness ==
  \E p \in Procs :
    /\ status[p] = "done"
    /\ world = IncompatibleCycleWorld
    /\ <<"c", "c">> \in DOMAIN fs[p]
    /\ fs[p][<<"c", "c">>].version = V200
    /\ hist[p].descents = 3

\* The install sites that the packages at dirs load for the dependencies
\* they declare, and the ones those load in turn.
RECURSIVE Reachable(_, _, _, _)
Reachable(tree, rinfo, production, dirs) ==
  LET declared(dir) ==
        IF dir = <<>> THEN getDependencies(rinfo, production).deps
        ELSE getDependencies(tree[dir], TRUE).deps
      more == dirs \cup UNION {UNION {Loaded(tree, dir, declared(dir)[i].name) :
                                        i \in DOMAIN declared(dir)} :
                                 dir \in dirs}
  IN IF more = dirs THEN dirs
     ELSE Reachable(tree, rinfo, production, more)

\* C25: a step writes an install site only during install and only where
\* no site was before, so that a site holding a compatible installation is
\* never modified; and a step removes an install site only during
\* uninstall and only when no retained package reaches it from the root
\* through declared dependencies.
C25_SitesWrittenAndRemoved ==
  [][\A p \in Procs :
       /\ \A s \in DOMAIN fs'[p] :
            (s \notin DOMAIN fs[p] \/ fs'[p][s] # fs[p][s]) =>
              /\ status[p] = "running" /\ hist[p].op = "install"
              /\ s \notin DOMAIN fs[p]
       /\ \A s \in DOMAIN fs[p] \ DOMAIN fs'[p] :
            /\ hist'[p].op = "uninstall"
            /\ s \notin Reachable(fs[p], rootInfo'[p], hist'[p].production,
                                  {<<>>})]_vars

\* The tags of T that are versions without prerelease part and, when a
\* range is given, satisfy it.
Candidates(T, version) ==
  {t \in T :
     /\ semverParse(t) # <<>> /\ ~semverParse(t)[1].prerelease
     /\ version # <<>> => satisfies(semverParse(t)[1].version, version)}

\* C27: discoverRepo without branch selects the candidate tag that no
\* other candidate exceeds in semver precedence, whenever there is one.
C27_HighestTag ==
  (call.fn = "discoverTag" /\ call.ret # <<>>) =>
    LET ok == Candidates(call.args.tags, call.args.version)
        r == call.ret[1]
    IN ok # {} =>
         /\ r.err = "" /\ r.tag # <<>>
         /\ r.tag[1] \in ok
         /\ \A u \in ok : ~VerLess(semverParse(r.tag[1])[1].version,
                                    semverParse(u)[1].version)

\* The tag name of git is annotated: git ls-remote prints a peeled line
\* for it.
IsAnnotated(git, name) ==
  \E i \in DOMAIN lsRemoteTags(git) : lsRemoteTags(git)[i].tag = name \o Peel

\* C28: the cache directory of a fetch is named by the object id of the
\* tag object when the selected tag is annotated, by the commit the tag
\* points to when it is not, and by the commit of the branch tip for a
\* branch.
C28_CacheKey ==
  \A p \in Procs :
    cur[p].oid # <<>> =>
      LET repo == RepoOf(cur[p].git)
      IN IF cur[p].branch # <<>>
           THEN Oid(p) = listBranches(cur[p].git).branches[cur[p].branch[1]]
         ELSE IF IsAnnotated(cur[p].git, cur[p].tag[1].name)
           THEN Oid(p) = TagOid(repo, cur[p].tag[1].name)
         ELSE Oid(p) = CommitOid(repo, cur[p].tag[1].name)

\* C29: a branch is verified with verify-commit <branch>, an annotated tag
\* with verify-tag <tag name> and a lightweight tag with verify-commit
\* <commit of the tag>.
C29_VerificationByKind ==
  \A p \in Procs :
    hist[p].verify # <<>> =>
      LET v == hist[p].verify[1]
      IN IF v.branch # <<>>
           THEN v.run.cmd = "verify-commit" /\ v.run.arg = v.branch
         ELSE IF IsAnnotated(v.git, v.tag[1].name)
           THEN v.run.cmd = "verify-tag" /\ v.run.arg = <<v.tag[1].name>>
         ELSE /\ v.run.cmd = "verify-commit"
              /\ v.run.arg = <<CommitOid(RepoOf(v.git), v.tag[1].name)>>

\* A lightweight tag has been verified, and so has an annotated tag or a
\* branch in another run of this state.
C29_Witness ==
  \E p \in Procs :
    /\ hist[p].verify # <<>>
    /\ hist[p].verify[1].branch = <<>>
    /\ ~IsAnnotated(hist[p].verify[1].git, hist[p].verify[1].tag[1].name)
    /\ hist[p].verify[1].run.cmd = "verify-commit"
    /\ \E s \in hist[p].placed : s.commit = <<>> /\ s.name # LightRepo

\* C26: while and after install(sources) in the project every dependency
\* discovered for the sources is a dependency of the root package.json,
\* from the step before the first installModule on; install(sources,
\* {global: true}) leaves the root package.json as it was.
C26_SourcesRecorded ==
  \A p \in Procs :
    (hist[p].op = "install" /\ hist[p].info0 # <<>>
     /\ status[p] \in {"running", "done"}) =>
      IF hist[p].global
        THEN rootInfo[p] = hist[p].info0[1] /\ hist[p].writes = hist[p].copies
        ELSE \A i \in DOMAIN hist[p].sources :
               \E j \in DOMAIN rootInfo[p].deps :
                 rootInfo[p].deps[j] = hist[p].sources[i]

\* A global install of sources has installed a module below the global
\* library root, after an install of sources in the project had recorded
\* its source in the package.json.
C26_Witness ==
  \E p \in Procs :
    /\ status[p] = "done" /\ hist[p].op = "install"
    /\ hist[p].global /\ hist[p].sources # <<>>
    /\ fs[GlobalLib] # Empty
    /\ \E j \in DOMAIN rootInfo[p].deps : rootInfo[p].deps[j].src[1] = "git+"

\* The package at dir declares, in its own dependencies, a source for the
\* installed site that matches it by branch or by version.
DeclaresFor(tree, info, dir, site) ==
  LET m == ManifestAt(tree, info, dir)
  IN \E i \in DOMAIN m.deps :
       /\ m.deps[i].name = site.name
       /\ LET remote == resolveRemote(m.remotes, BaseDir, m.deps[i].name,
                                      m.deps[i].src, FALSE)
          IN IF site.branch # <<>> THEN site.branch = remote.branch
             ELSE satisfies(site.version, remote.version)

\* C31: isRequired(x) is true exactly when the root package or a package
\* installed below it, at any depth, declares a source that matches the
\* installed x.
C31_RequiredIff ==
  (call.fn = "isRequired" /\ call.ret # <<>>) =>
    (call.ret[1].required <=>
       \E dir \in DOMAIN call.args.tree \cup {<<>>} :
         DeclaresFor(call.args.tree, call.args.info, dir,
                     call.args.tree[<<call.args.name>>]))


(***************************************************************************)
(* copyPackage: files, ignore files and bundled dependencies.              *)
(***************************************************************************)
CopyDone == call.fn = "copyPackage" /\ call.ret # <<>>

\* The entries at the top of the cache entry that a pattern of the list
\* matches, for the lines with the given "!".
TopMatches(tree, lines, inverse) ==
  {f \in DOMAIN tree :
     /\ Len(f) = 1
     /\ \E k \in DOMAIN lines :
          /\ lines[k].inverse = inverse
          /\ f \in glob(tree, <<>>, lines[k].pattern)}

AlwaysIgnored(tree) ==
  {f \in DOMAIN tree :
     \E k \in DOMAIN (ALWAYS_IGNORE \o IGNORE_FILES) :
       f \in glob(tree, <<>>, (ALWAYS_IGNORE \o IGNORE_FILES)[k])}

UserIgnored(tree) ==
  TopMatches(tree, FirstIgnoreFile(tree, <<>>, 1), FALSE)

\* C32: when files is declared, a top-level entry that a files pattern
\* matches is copied even if a pattern of the root ignore file matches it,
\* and an entry that an always-ignore pattern matches is never copied.
C32_FilesOverIgnoreFile ==
  (CopyDone /\ call.args.info.files # <<>>) =>
    /\ \A f \in TopMatches(call.args.tree, call.args.info.files[1], FALSE)
                \ (AlwaysIgnored(call.args.tree)
                   \cup TopMatches(call.args.tree, call.args.info.files[1],
                                   TRUE)
                   \cup {<<"node_modules">>}) :
         f \in call.ret[1]
    /\ \A f \in AlwaysIgnored(call.args.tree) : f \notin call.ret[1]

\* The second half of C32 alone: an entry that an always-ignore pattern
\* matches is never copied, whatever files lists.
C32_AlwaysIgnored ==
  CopyDone => \A f \in AlwaysIgnored(call.args.tree) : f \notin call.ret[1]

C32_Witness ==
  /\ CopyDone /\ call.args.info.files # <<>>
  /\ <<"index.js">> \in TopMatches(call.args.tree, call.args.info.files[1],
                                   FALSE)
  /\ <<"index.js">> \in UserIgnored(call.args.tree)

\* C33: the never-ignored files at the top of the cache entry are always
\* copied, whatever the lines of the ignore files.
C33_NeverIgnoredCopied ==
  CopyDone =>
    \A f \in DOMAIN call.args.tree :
      (Len(f) = 1 /\ arrayIncludes(NEVER_IGNORE, f[1])) => f \in call.ret[1]

\* The effective list of bundled dependencies of a manifest.
Bundled(info, dep) == isBundleFile(info, <<"node_modules", dep>>)[2]

\* C34: a module under node_modules of the cache entry is copied if it is
\* a bundled dependency, and it is not copied otherwise;
\* here for the packages that declare no files.
C34_BundledCopied ==
  (CopyDone /\ call.args.info.files = <<>>) =>
    \A dep \in {"dep", "other"} :
      IF Bundled(call.args.info, dep)
      THEN <<"node_modules", dep>> \in call.ret[1]
      ELSE <<"node_modules", dep>> \notin call.ret[1]

\* The half of C34 about the modules that are not bundled.
C34_NotBundledNotCopied ==
  CopyDone =>
    \A dep \in {"dep", "other"} :
      ~Bundled(call.args.info, dep)
        => \A f \in call.ret[1] : ~(Len(f) >= 2 /\ f[1] = "node_modules"
                                    /\ f[2] = dep)


(***************************************************************************)
(* install(): rebuild and linking after installDependencies.               *)
(***************************************************************************)
StepsOf(p, ops) ==
  {k \in DOMAIN hist[p].steps : hist[p].steps[k].op \in ops}

IsBelow(d, e) == Len(e) > Len(d) /\ SubSeq(e, 1, Len(d)) = d

\* C35: in a local install nothing is built or linked while modules are
\* being installed or after an installModule has failed; when the install
\* is done every installed module has been built, each package after all
\* packages below it, and every link comes after every build.
C35_RebuildAfterInstall ==
  \A p \in Procs :
    /\ status[p] \in {"running", "error"} => hist[p].steps = <<>>
    /\ (status[p] = "done" /\ hist[p].op = "install"
        /\ ~standalone(hist[p].sources, hist[p].global)) =>
         /\ {hist[p].steps[k].dir : k \in StepsOf(p, {"rebuild"})}
              = DOMAIN fs[p] \cup {<<>>}
         /\ \A a, b \in StepsOf(p, {"rebuild"}) :
              IsBelow(hist[p].steps[a].dir, hist[p].steps[b].dir) => b < a
         /\ StepsOf(p, {"linkBin"}) # {}
         /\ \A a \in StepsOf(p, {"rebuild"}),
               b \in StepsOf(p, {"linkBin", "linkDependenciesBin",
                                 "linkGlobal"}) : a < b

C35_Witness ==
  \E p \in Procs :
    /\ status[p] = "done" /\ hist[p].op = "install"
    /\ \E d \in DOMAIN fs[p] : Len(d) = 2
    /\ StepsOf(p, {"linkBin"}) # {}


(***************************************************************************)
(* Resolution of the installed tree.                                       *)
(***************************************************************************)
\* install() without error, started on a project without node_modules.
FreshInstallDone(p) ==
  /\ status[p] = "done" /\ hist[p].op = "install"
  /\ hist[p].fs0 = Empty
  /\ ~standalone(hist[p].sources, hist[p].global)

\* The package at dir finds the dependency d of its manifest m: the first
\* node_modules/<name> on the way up holds a version or commit that d
\* accepts.
Resolves(tree, m, dir, d) ==
  \E s \in Loaded(tree, dir, d.name) :
    Compatible(tree, SubSeq(s, 1, Len(s) - 1), Request(m, d))

\* C36: after a successful install that started without installed modules
\* every installed package, and the root, finds each of its dependencies
\* by the lookup from its own directory upwards, in a version that
\* satisfies its constraint.
C36_Resolvable ==
  \A p \in Procs :
    FreshInstallDone(p) =>
      \A dir \in DOMAIN fs[p] \cup {<<>>} :
        \A i \in DOMAIN ManifestAt(fs[p], rootInfo[p], dir).deps :
          Resolves(fs[p], ManifestAt(fs[p], rootInfo[p], dir), dir,
                   ManifestAt(fs[p], rootInfo[p], dir).deps[i])


\* The dependencies of the root that the install of p has to install.
RootDeps(p) == getDependencies(rootInfo[p], hist[p].production).deps

\* C37 as stated: after a successful install that started without
\* installed modules every name that the root manifest declares, in
\* dependencies or in devDependencies, is installed at
\* <root>/node_modules/<name> in a version that the root accepts.
C37_EveryDeclaredName ==
  \A p \in Procs :
    FreshInstallDone(p) =>
      \A d \in {rootInfo[p].deps[i] : i \in DOMAIN rootInfo[p].deps}
               \cup {rootInfo[p].devDeps[i] :
                       i \in DOMAIN rootInfo[p].devDeps} :
        /\ <<d.name>> \in DOMAIN fs[p]
        /\ Compatible(fs[p], <<>>, Request(rootInfo[p], d))

\* C37, amended: the dependencies of a package are all placed before a
\* dependency of one of them is resolved, and after a successful install
\* that started without installed modules every dependency of the root
\* that the install has to install (the devDependencies only without
\* --production) is installed at <root>/node_modules/<name> in a version
\* that the root accepts.
C37_DirectFirst ==
  \A p \in Procs :
    /\ \A k \in 1..(Len(stack[p]) - 1) :
         stack[p][k].global \/ stack[p][k].i > Len(stack[p][k].deps)
    /\ FreshInstallDone(p) =>
         \A i \in DOMAIN RootDeps(p) :
           /\ <<RootDeps(p)[i].name>> \in DOMAIN fs[p]
           /\ Compatible(fs[p], <<>>, Request(rootInfo[p], RootDeps(p)[i]))

C37_Witness ==
  \E p \in Procs :
    /\ FreshInstallDone(p)
    /\ Len(RootDeps(p)) = 2
    /\ \E d \in DOMAIN fs[p] : Len(d) = 2 /\ <<d[2]>> \in DOMAIN fs[p]


(***************************************************************************)
(* install(sources, {global: true}) with several sources.                  *)
(***************************************************************************)
\* C38: when install(sources, {global: true}) returns 0, every source is
\* installed below the global library root, by this install or by an
\* earlier one, with the dependencies of its manifest.
C38_EverySourceInstalled ==
  \A p \in Procs :
    (status[p] = "done" /\ hist[p].op = "install"
     /\ standalone(hist[p].sources, hist[p].global)) =>
      \A i \in DOMAIN hist[p].sources :
        /\ <<hist[p].sources[i].name>> \in DOMAIN fs[GlobalLib]
        /\ DepsInstalled(fs[GlobalLib], rootInfo[p],
                         {<<hist[p].sources[i].name>>})


(***************************************************************************)
(* install() after an install() that failed.                               *)
(***************************************************************************)
\* Some install site of the tree holds the dependency d of the manifest m
\* in a version or commit that d accepts.
InstalledSomewhere(tree, m, d) ==
  \E s \in DOMAIN tree :
    /\ s[Len(s)] = d.name
    /\ Compatible(tree, SubSeq(s, 1, Len(s) - 1), Request(m, d))

\* C39: an install that succeeds after an install that failed leaves every
\* module that the failed install had copied in the tree, with every
\* dependency of its manifest installed.
C39_Recovery ==
  \A p \in Procs :
    (status[p] = "done" /\ hist[p].op = "install" /\ hist[p].afterErr) =>
      \A M \in DOMAIN hist[p].fs0 :
        /\ M \in DOMAIN fs[p]
        /\ \A i \in DOMAIN fs[p][M].deps :
             InstalledSomewhere(fs[p], fs[p][M], fs[p][M].deps[i])


(***************************************************************************)
(* uninstall(names, {global: true}).                                       *)
(***************************************************************************)
UninstallDone == call.fn = "uninstall" /\ call.ret # <<>>

\* C40: uninstall(names, {global: true}) removes nothing but the entries at
\* and below <global lib>/<name> and the executable of each name, leaves
\* every other entry as it was and, where <global lib>/<name> is a link to
\* a package directory, removes the link and no entry of that directory.
C40_OnlyGlobalPath ==
  UninstallDone =>
    LET before == call.args.disk
        after == call.ret[1].disk
        names == {call.args.sources[i] : i \in DOMAIN call.args.sources}
    IN /\ DOMAIN after \subseteq DOMAIN before
       /\ \A f \in DOMAIN after : after[f] = before[f]
       /\ \A f \in DOMAIN before \ DOMAIN after :
            \E n \in names :
              \/ f = GlobalLibDir \o <<n>>
              \/ IsUnder(GlobalLibDir \o <<n>>, f)
              \/ f = GlobalBinDir \o <<n>>
       /\ call.ret[1].err = "" =>
            \A n \in names : \A f \in DOMAIN after :
              f # GlobalLibDir \o <<n>> /\ ~IsUnder(GlobalLibDir \o <<n>>, f)

C40_Witness ==
  /\ UninstallDone /\ call.ret[1].err = ""
  /\ <<"lib", "c">> \in DOMAIN call.args.disk
  /\ call.args.disk[<<"lib", "c">>].type = "link"
  /\ <<"lib", "c">> \notin DOMAIN call.ret[1].disk
  /\ <<"proj", "index.js">> \in DOMAIN call.ret[1].disk

====
